---- MODULE Spec2Model ----
(***************************************************************************)
(* Connection/session engine of the OpenClaw WebChat client                *)
(* (packages/core/src/client.ts, class OpenClawClient).                    *)
(*                                                                         *)
(* One client instance talks to a gateway over WebSocket handles that it   *)
(* creates one per connect() call.  Every handler of the class is one      *)
(* action; a handler that awaits the device identity provider is split at  *)
(* the await into the step that suspends and the step that resumes, and    *)
(* the suspended continuation is an element of `tasks`.                    *)
(***************************************************************************)
EXTENDS Integers, Sequences, FiniteSets, TLC

\* ------------------------------------------------------------------ bounds
MaxSockets == 2     \* WebSocket handles one client instance creates
MaxTasks == 2       \* handler continuations suspended on the provider at once
MaxRequests == 2    \* request ids handed out by one client instance
MaxEvents == 3      \* chat events one client instance receives
MaxRuns == 2        \* run ids the gateway uses
MaxCalls == 2       \* provider calls in flight at once
MaxOps == 3         \* provider calls made in all
MaxKeys == 3        \* key pairs generated in all
MaxOut == 2         \* connect requests one socket has unanswered at once

None == "none"
Sockets == 1..MaxSockets
Ids == 1..MaxRequests

\* -------------------------------------------------------------- variables
VARIABLES
  connectionState,          \* this.state.connectionState
  reconnectAttempts,        \* this.state.reconnectAttempts
  ws,                       \* this.ws: 0 is null, else the socket handle
  reconnectTimer,           \* TRUE while the reconnect setTimeout is armed
  optReconnect,             \* this.options.reconnect
  maxReconnectAttempts,     \* this.options.maxReconnectAttempts
  optToken,                 \* this.options.token (None when not configured)
  optPassword,              \* this.options.password configured
  providerMode,             \* device identity provider: none/supported/unsupported
  providerToken,            \* token persisted by the provider for this gateway
  deviceToken,              \* this.deviceToken
  sessionKey,               \* this.sessionKey
  hasRetriedTokenMismatch,  \* this.hasRetriedTokenMismatch
  forceSharedAuthOnce,      \* this.forceSharedAuthOnce
  lastChallenge,            \* this.lastChallenge: 0 is null, 1 a parsed challenge
  pendingRequests,          \* ids of this.pendingRequests
  sock,                     \* per connect() call: socket, promise and timeout closure
  nSockets,                 \* number of WebSocket handles created so far
  tasks,                    \* continuations suspended at an await on the provider
  emitted,                  \* notifications emitted by the last step, in order
  sent,                     \* frames written to a socket by the last step, in order
  messageId,                \* number of request ids handed out by nextId()
  requests,                 \* per request id: its promise and its timeout
  callError,                \* the error the call of this step failed with at once
  currentStreamingMessageId, \* this.currentStreamingMessageId: 0 is null, else the run
  lastStreamedContent,      \* this.lastStreamedContent, a sequence of characters
  chatLog,                  \* chat events received so far, each with what it emitted
  eventListeners,           \* this.eventListeners: per event, its callbacks in insertion order
  store,                    \* IndexedDB object store 'device-auth': per key, its record
  calls,                    \* provider calls in flight, each suspended at an await
  opLog,                    \* provider calls completed so far, with what they returned
  nKeys,                    \* key pairs generated so far by crypto.subtle.generateKey
  errorPayload,             \* frame.error of the last failure response classified
  clientError               \* the OpenClawClientError created from it

vars == <<connectionState, reconnectAttempts, ws, reconnectTimer, optReconnect,
          maxReconnectAttempts, optToken, optPassword, providerMode, providerToken,
          deviceToken, sessionKey, hasRetriedTokenMismatch, forceSharedAuthOnce,
          lastChallenge, pendingRequests, sock, nSockets, tasks, emitted, sent,
          messageId, requests, callError, currentStreamingMessageId,
          lastStreamedContent, chatLog, eventListeners, store, calls, opLog, nKeys,
          errorPayload, clientError>>

\* The request correlator's ids and promises.
reqVars == <<messageId, requests>>

\* The streaming reassembler's tracked run, and the record of its events.
chatVars == <<currentStreamingMessageId, lastStreamedContent, chatLog>>

\* The browser's device-auth store and the provider calls working on it.
storeVars == <<store, calls, opLog, nKeys>>

\* The last error payload classified and the error made from it.
errVars == <<errorPayload, clientError>>

\* Variables no handler writes after construction.
config == <<maxReconnectAttempts, optToken, optPassword, providerMode>>

\* ------------------------------------------------------------ notifications
StateChange(st, n) == [ev |-> "stateChange", st |-> st, n |-> n]
Note(name) == [ev |-> name, st |-> "", n |-> 0]
NoteN(name, n) == [ev |-> name, st |-> "", n |-> n]

Emits(name) == \E i \in 1..Len(emitted) : emitted[i].ev = name

\* provider?.isSupported()
providerSupported == providerMode = "supported"

\* --------------------------------------------------------- socket records
UnusedSocket ==
  [rs |-> "UNUSED", promise |-> "unused", timeout |-> "unused",
   out |-> <<>>, challenged |-> FALSE]

NewSocket ==
  [rs |-> "CONNECTING", promise |-> "pending", timeout |-> "armed",
   out |-> <<>>, challenged |-> FALSE]

\* A promise settles once: resolve/reject of a settled promise is a no-op.
Settle(p, v) == IF p = "pending" THEN v ELSE p

\* clearTimeout(timeout) of a connect() call's connection timeout
ClearTimeout(t) == IF t = "armed" THEN "cleared" ELSE t

\* WebSocket.close(): starts the closing handshake of a socket not yet closed
CloseSocket(rs) == IF rs \in {"CONNECTING", "OPEN"} THEN "CLOSING" ELSE rs

\* A request id not handed out yet; the promise of request(): pending until
\* a response, the request timeout or a socket close settles it.
\* via is this.ws at the time of the call (0 when the client holds no socket).
UnusedRequest == [status |-> "unused", timeout |-> "unused", via |-> 0]
NewRequest == [status |-> "pending", timeout |-> "armed", via |-> ws]

\* options.reconnect and options.maxReconnectAttempts as constructed:
\* unlimited (-1), no attempt (0), one attempt.  Auto-reconnect switched off
\* is the state every configuration is in after disconnect().
ReconnectOptions ==
  {[reconnect |-> TRUE, max |-> -1], [reconnect |-> TRUE, max |-> 0],
   [reconnect |-> TRUE, max |-> 1]}

\* Credentials as constructed: options.token, options.password,
\* options.deviceToken, the provider and the token it has persisted, and
\* options.sessionKey (None when not configured).
AuthOptions ==
  {[token |-> "bearer", password |-> FALSE, provider |-> "none",
    stored |-> None, device |-> "old", session |-> None],
   [token |-> None, password |-> TRUE, provider |-> "none",
    stored |-> None, device |-> "old", session |-> "configured"],
   [token |-> "bearer", password |-> TRUE, provider |-> "supported",
    stored |-> "old", device |-> None, session |-> None],
   [token |-> None, password |-> FALSE, provider |-> "supported",
    stored |-> None, device |-> None, session |-> None],
   [token |-> "bearer", password |-> FALSE, provider |-> "unsupported",
    stored |-> None, device |-> None, session |-> "configured"]}

\* frame.error absent: no code, no message
NoErrorPayload == [code |-> None, message |-> <<>>]

\* No error created yet
NoClientError == [message |-> <<>>, code |-> None, rawCode |-> None]

\* The events the application registers callbacks for
ListenedEvents == {"stateChange", "connected"}

\* The gateway URLs provider instances are created for: the origin
\* (protocol and host) and the characters of the path as new URL() parses
\* them; origin None is a string that new URL() rejects.
Gateways ==
  {[origin |-> "ws://h", path |-> <<"/">>],
   [origin |-> "ws://h", path |-> <<"/", "x">>],
   [origin |-> "ws://h", path |-> <<"/", "x", "/">>],
   [origin |-> None, path |-> <<"x", "/">>]}

\* pathname.replace(/\/+$/, ''): the path without its trailing slashes
RECURSIVE stripTrailingSlashes(_)
stripTrailingSlashes(path) ==
  IF path # <<>> /\ path[Len(path)] = "/"
  THEN stripTrailingSlashes(SubSeq(path, 1, Len(path) - 1))
  ELSE path

\* normalizeGatewayKey(gateway): protocol//host and the stripped path ('/'
\* when nothing is left); the string itself when it is not a URL.
normalizeGatewayKey(g) ==
  IF g.origin = None THEN g
  ELSE [origin |-> g.origin,
        path |-> IF stripTrailingSlashes(g.path) = <<>> THEN <<"/">>
                 ELSE stripTrailingSlashes(g.path)]

\* The keys of the device-auth store: normalized gateway endpoints
StoreKeys == {normalizeGatewayKey(g) : g \in Gateways}

\* readRecord of a key that has no record: undefined
NoRecord == [id |-> 0, deviceToken |-> None]

Init ==
  /\ connectionState = "disconnected"
  /\ reconnectAttempts = 0
  /\ ws = 0
  /\ reconnectTimer = FALSE
  /\ \E r \in ReconnectOptions :
       /\ optReconnect = r.reconnect
       /\ maxReconnectAttempts = r.max
  /\ \E a \in AuthOptions :
       /\ optToken = a.token
       /\ optPassword = a.password
       /\ providerMode = a.provider
       /\ providerToken = a.stored
       /\ deviceToken = a.device
       /\ sessionKey = a.session
  /\ hasRetriedTokenMismatch = FALSE
  /\ forceSharedAuthOnce = FALSE
  /\ lastChallenge = 0
  /\ pendingRequests = {}
  /\ sock = [s \in Sockets |-> UnusedSocket]
  /\ nSockets = 0
  /\ tasks = <<>>
  /\ emitted = <<>>
  /\ sent = <<>>
  /\ messageId = 0
  /\ requests = [id \in Ids |-> UnusedRequest]
  /\ callError = None
  /\ currentStreamingMessageId = 0
  /\ lastStreamedContent = <<>>
  /\ chatLog = <<>>
  /\ eventListeners = [e \in ListenedEvents |-> <<>>]
  /\ store = [k \in StoreKeys |-> NoRecord]
  /\ calls = <<>>
  /\ opLog = <<>>
  /\ nKeys = 0
  /\ errorPayload = NoErrorPayload
  /\ clientError = NoClientError

\* ------------------------------------------------------ reconnect policy
\* Mutant of shouldReconnect: off by one, one attempt too many
shouldReconnect_OffByOne ==
  maxReconnectAttempts = -1 \/ reconnectAttempts <= maxReconnectAttempts

\* shouldReconnect(): attempts remain, or the maximum is -1 (unlimited)
shouldReconnect ==
  maxReconnectAttempts = -1 \/ reconnectAttempts < maxReconnectAttempts

\* Mutant of clearReconnectTimer: the pending timer is left in place
clearReconnectTimer_Leaves == reconnectTimer

\* clearReconnectTimer(): the value of the timer slot afterwards
clearReconnectTimer == FALSE

\* Mutant of scheduleReconnect: notifies the attempt number before the increment
scheduleReconnect_StaleAttempt ==
  [st |-> "reconnecting", n |-> reconnectAttempts + 1, timer |-> TRUE,
   em |-> <<StateChange("reconnecting", reconnectAttempts + 1),
            NoteN("reconnecting", reconnectAttempts)>>]

\* scheduleReconnect(): the new state, the armed timer and the notifications
scheduleReconnect ==
  LET attempt == reconnectAttempts + 1 IN
  [st |-> "reconnecting", n |-> attempt, timer |-> TRUE,
   em |-> <<StateChange("reconnecting", attempt), NoteN("reconnecting", attempt)>>]

\* handleDisconnect(reason): everything it decides besides ws and pendingRequests
handleDisconnect ==
  LET wasConnected == connectionState = "connected"
      pre == IF wasConnected THEN <<Note("disconnected")>> ELSE <<>>
  IN IF optReconnect /\ shouldReconnect
     THEN [scheduleReconnect EXCEPT !.em = pre \o @]
     ELSE [st |-> "disconnected", n |-> reconnectAttempts, timer |-> reconnectTimer,
           em |-> pre \o <<StateChange("disconnected", reconnectAttempts)>>]

\* ------------------------------------------------------------- connect()
\* Mutant of alreadyConnected: connect() never returns early
alreadyConnected_Never == FALSE

\* connect(): `if (this.state.connectionState === 'connected') return`
alreadyConnected == connectionState = "connected"

\* Mutant of ensureDeviceAuthSupport: the check never throws
ensureDeviceAuthSupport_Passes == TRUE

\* ensureDeviceAuthSupport() returns: it throws DEVICE_AUTH_UNSUPPORTED in a
\* browser whose provider reports itself unsupported.
ensureDeviceAuthSupport == providerMode # "unsupported"

\* The body of connect(); timerAfter is the timer slot the caller leaves.
connect(timerAfter) ==
  /\ reconnectTimer' = timerAfter
  /\ sent' = <<>>
  /\ callError' = IF ~alreadyConnected /\ ~ensureDeviceAuthSupport
                  THEN "DEVICE_AUTH_UNSUPPORTED" ELSE None
  /\ UNCHANGED <<reconnectAttempts, optReconnect, chatVars, config, eventListeners, storeVars, errVars, reqVars, providerToken, deviceToken,
                 sessionKey, hasRetriedTokenMismatch, forceSharedAuthOnce,
                 lastChallenge, pendingRequests, tasks>>
  /\ IF alreadyConnected
     THEN /\ emitted' = <<>>
          /\ UNCHANGED <<connectionState, ws, sock, nSockets>>
     ELSE IF ~ensureDeviceAuthSupport
     THEN \* ensureDeviceAuthSupport() throws: state error, 'error' emitted, rethrown
          /\ connectionState' = "error"
          /\ emitted' = <<StateChange("error", reconnectAttempts), Note("error")>>
          /\ UNCHANGED <<ws, sock, nSockets>>
     ELSE /\ nSockets < MaxSockets
          /\ connectionState' = "connecting"
          /\ nSockets' = nSockets + 1
          /\ ws' = nSockets + 1
          /\ sock' = [sock EXCEPT ![nSockets + 1] = NewSocket]
          /\ emitted' = <<StateChange("connecting", reconnectAttempts)>>

\* connect() called by the application
Connect == connect(reconnectTimer)

\* The reconnect timer fires: its callback awaits connect() and logs a rejection
ReconnectTimerFires ==
  /\ reconnectTimer
  /\ connect(FALSE)

\* Mutant of disconnectReconnectOption: the option is left as configured
disconnectReconnectOption_Kept == optReconnect

\* The value disconnect() writes to options.reconnect
disconnectReconnectOption == FALSE

\* disconnect()
Disconnect ==
  /\ optReconnect' = disconnectReconnectOption
  /\ reconnectTimer' = clearReconnectTimer
  /\ sock' = IF ws # 0 THEN [sock EXCEPT ![ws].rs = CloseSocket(@)] ELSE sock
  /\ ws' = 0
  /\ connectionState' = "disconnected"
  /\ emitted' = <<StateChange("disconnected", reconnectAttempts), Note("disconnected")>>
  /\ sent' = <<>>
  /\ callError' = None
  /\ UNCHANGED <<reconnectAttempts, chatVars, config, eventListeners, storeVars, errVars, reqVars, providerToken, deviceToken, sessionKey,
                 hasRetriedTokenMismatch, forceSharedAuthOnce, lastChallenge,
                 pendingRequests, nSockets, tasks>>

\* ---------------------------------------------------- socket callbacks
\* ws.onopen
SocketOpen(s) ==
  /\ sock[s].rs = "CONNECTING"
  /\ sock' = [sock EXCEPT ![s].rs = "OPEN"]
  /\ connectionState' = "authenticating"
  /\ emitted' = <<StateChange("authenticating", reconnectAttempts)>>
  /\ sent' = <<>>
  /\ callError' = None
  /\ UNCHANGED <<reconnectAttempts, ws, reconnectTimer, optReconnect, chatVars, config, eventListeners, storeVars, errVars, reqVars,
                 providerToken, deviceToken, sessionKey, hasRetriedTokenMismatch,
                 forceSharedAuthOnce, lastChallenge, pendingRequests, nSockets, tasks>>

\* ws.onerror: the error event of a socket; its close event follows separately
SocketError(s) ==
  /\ sock[s].rs \in {"CONNECTING", "OPEN", "CLOSING"}
  /\ sock' = [sock EXCEPT ![s].rs = "ERRORED",
                          ![s].timeout = ClearTimeout(@),
                          ![s].promise = Settle(@, "rejected_socket")]
  /\ connectionState' = "error"
  /\ emitted' = <<StateChange("error", reconnectAttempts), Note("error")>>
  /\ sent' = <<>>
  /\ callError' = None
  /\ UNCHANGED <<reconnectAttempts, ws, reconnectTimer, optReconnect, chatVars, config, eventListeners, storeVars, errVars, reqVars,
                 providerToken, deviceToken, sessionKey, hasRetriedTokenMismatch,
                 forceSharedAuthOnce, lastChallenge, pendingRequests, nSockets, tasks>>

\* handleDisconnect: every pending request has its timeout cleared and is
\* rejected with 'Disconnected'
rejectPending ==
  [id \in Ids |-> IF id \in pendingRequests
                  THEN [requests[id] EXCEPT !.status = "rejected_disconnected",
                                            !.timeout = ClearTimeout(@)]
                  ELSE requests[id]]

\* ws.onclose: clears the connect() timeout and runs handleDisconnect
SocketClose(s) ==
  /\ sock[s].rs \in {"CONNECTING", "OPEN", "CLOSING", "ERRORED"}
  /\ sock' = [sock EXCEPT ![s].rs = "CLOSED", ![s].timeout = ClearTimeout(@)]
  /\ ws' = 0
  /\ pendingRequests' = {}
  /\ requests' = rejectPending
  /\ connectionState' = handleDisconnect.st
  /\ reconnectAttempts' = handleDisconnect.n
  /\ reconnectTimer' = handleDisconnect.timer
  /\ emitted' = handleDisconnect.em
  /\ sent' = <<>>
  /\ callError' = None
  /\ UNCHANGED <<optReconnect, chatVars, config, eventListeners, storeVars, errVars, messageId, providerToken, deviceToken, sessionKey,
                 hasRetriedTokenMismatch, forceSharedAuthOnce, lastChallenge,
                 nSockets, tasks>>

\* The connection timeout of connect() call s fires: this.ws?.close(), reject
ConnectionTimeout(s) ==
  /\ sock[s].timeout = "armed"
  /\ LET closed == IF ws # 0 THEN [sock EXCEPT ![ws].rs = CloseSocket(@)] ELSE sock
     IN sock' = [closed EXCEPT ![s].timeout = "fired",
                              ![s].promise = Settle(@, "rejected_timeout")]
  /\ emitted' = <<>>
  /\ sent' = <<>>
  /\ callError' = None
  /\ UNCHANGED <<connectionState, reconnectAttempts, ws, reconnectTimer, optReconnect,
                 chatVars, config, eventListeners, storeVars, errVars, reqVars, providerToken, deviceToken, sessionKey,
                 hasRetriedTokenMismatch, forceSharedAuthOnce, lastChallenge,
                 pendingRequests, nSockets, tasks>>

\* ------------------------------------------------- sendConnectRequest()
\* A continuation suspended at an await on the provider.  s is the connect()
\* call whose resolve/reject/timeout its handler closed over.
Task(pc, s, ch, auth, tok, sk, retry) ==
  [pc |-> pc, s |-> s, ch |-> ch, auth |-> auth, tok |-> tok, sk |-> sk, retry |-> retry]

\* Mutant of authCredential: the configured bearer token comes first
authCredential_BearerFirst(dt, force) ==
  IF optToken # None THEN optToken
  ELSE IF dt # None /\ ~force THEN dt
  ELSE IF optPassword THEN "password" ELSE None

\* The credential of the auth block: the device token unless shared auth is
\* forced, else options.token, else options.password, else no auth block.
authCredential(dt, force) ==
  LET authToken == IF dt # None /\ ~force THEN dt ELSE optToken
  IN IF authToken # None THEN authToken
     ELSE IF optPassword THEN "password" ELSE None

\* The connect request frame; `via` is the connect() call whose handler built it.
ConnectFrame(auth, ch, s, retry) ==
  [method |-> "connect", auth |-> auth, device |-> (ch # 0 /\ providerSupported),
   retry |-> retry, via |-> s]

\* sendConnectRequest after `await provider.signChallenge`: the flag is
\* consumed and the frame handed to sendFrame.
scrAfterSign(dt, lc, auth, ch, s, retry) ==
  [dt |-> dt, force |-> FALSE, lc |-> lc, task |-> <<>>,
   frame |-> <<ConnectFrame(auth, ch, s, retry)>>]

\* sendConnectRequest from the choice of the credential to the await on
\* signChallenge (taken when a challenge is present and the provider works).
scrAfterToken(dt, force, lc, ch, s, retry) ==
  LET auth == authCredential(dt, force) IN
  IF ch # 0 /\ providerSupported
  THEN [dt |-> dt, force |-> force, lc |-> lc,
        task |-> <<Task("sign", s, ch, auth, None, None, retry)>>, frame |-> <<>>]
  ELSE scrAfterSign(dt, lc, auth, ch, s, retry)

\* sendConnectRequest(challenge) from its entry to its first await or its end.
sendConnectRequest(dt, force, lc, ch, s, retry) ==
  LET lc1 == IF ch # 0 THEN ch ELSE lc IN
  IF ~force /\ providerSupported /\ dt = None
  THEN [dt |-> dt, force |-> force, lc |-> lc1,
        task |-> <<Task("getToken", s, ch, None, None, None, retry)>>, frame |-> <<>>]
  ELSE scrAfterToken(dt, force, lc1, ch, s, retry)

\* The effects of one run of sendConnectRequest on the client: res is what it
\* computed, sockBase/tasksBase what the calling handler had done before.
\* sendFrame writes only when this.ws is OPEN, and drops the frame otherwise.
ApplyConnectRequest(res, sockBase, tasksBase) ==
  LET open == ws # 0 /\ sockBase[ws].rs = "OPEN" IN
  /\ Len(tasksBase) + Len(res.task) <= MaxTasks
  /\ deviceToken' = res.dt
  /\ forceSharedAuthOnce' = res.force
  /\ lastChallenge' = res.lc
  /\ tasks' = tasksBase \o res.task
  /\ sent' = IF open THEN res.frame ELSE <<>>
  /\ sock' = IF open /\ res.frame # <<>>
            THEN [sockBase EXCEPT ![ws].out =
                    Append(@, [retry |-> res.frame[1].retry, via |-> res.frame[1].via])]
            ELSE sockBase

\* tasks without its i-th element
RemoveTask(i) == SubSeq(tasks, 1, i - 1) \o SubSeq(tasks, i + 1, Len(tasks))

\* parseChallenge(payload): a challenge when the nonce is a string, else undefined
parseChallenge(valid) == IF valid THEN 1 ELSE 0

\* A connect.challenge arrives on socket s, as a request or as an event
\* (handleRequest / handleEvent); valid: its nonce is a string.
ServerChallenge(s, valid) ==
  /\ sock[s].rs = "OPEN"
  /\ ~sock[s].challenged
  /\ ApplyConnectRequest(
        sendConnectRequest(deviceToken, forceSharedAuthOnce, lastChallenge,
                           parseChallenge(valid), s, FALSE),
        [sock EXCEPT ![s].challenged = TRUE], tasks)
  /\ emitted' = <<>>
  /\ callError' = None
  /\ UNCHANGED <<connectionState, reconnectAttempts, ws, reconnectTimer, optReconnect,
                 chatVars, config, eventListeners, storeVars, errVars, reqVars, providerToken, sessionKey, hasRetriedTokenMismatch,
                 pendingRequests, nSockets>>

\* `this.deviceToken = await provider.getDeviceToken()` completes
ResumeGetToken(i) ==
  /\ tasks[i].pc = "getToken"
  /\ ApplyConnectRequest(
        scrAfterToken(providerToken, forceSharedAuthOnce, lastChallenge,
                      tasks[i].ch, tasks[i].s, tasks[i].retry),
        sock, RemoveTask(i))
  /\ emitted' = <<>>
  /\ callError' = None
  /\ UNCHANGED <<connectionState, reconnectAttempts, ws, reconnectTimer, optReconnect,
                 chatVars, config, eventListeners, storeVars, errVars, reqVars, providerToken, sessionKey, hasRetriedTokenMismatch,
                 pendingRequests, nSockets>>

\* `params.device = await provider.signChallenge(...)` completes
ResumeSign(i) ==
  /\ tasks[i].pc = "sign"
  /\ ApplyConnectRequest(
        scrAfterSign(deviceToken, lastChallenge, tasks[i].auth,
                     tasks[i].ch, tasks[i].s, tasks[i].retry),
        sock, RemoveTask(i))
  /\ emitted' = <<>>
  /\ callError' = None
  /\ UNCHANGED <<connectionState, reconnectAttempts, ws, reconnectTimer, optReconnect,
                 chatVars, config, eventListeners, storeVars, errVars, reqVars, providerToken, sessionKey, hasRetriedTokenMismatch,
                 pendingRequests, nSockets>>

\* ----------------------------------------------------- handleResponse()
\* Mutant of connectedState: the attempt counter is not reset
connectedState_KeepsAttempts == [st |-> "connected", n |-> reconnectAttempts]

\* The partial state handed to setState once hello-ok is accepted
connectedState == [st |-> "connected", n |-> 0]

\* Mutant of resolveSessionKey: every hello-ok that carries a key replaces it
resolveSessionKey_Latest(sk) == IF sk # None THEN sk ELSE sessionKey

\* handleResponse on hello-ok: the default session key of the payload is
\* taken only while the client has none.
resolveSessionKey(sk) == IF sessionKey = None /\ sk # None THEN sk ELSE sessionKey

\* handleResponse on hello-ok, after the token (if any) has been persisted:
\* session key, retry flags, state, 'connected', clearTimeout, connectResolve.
FinishHelloOk(s, sk, sockBase) ==
  /\ sessionKey' = resolveSessionKey(sk)
  /\ hasRetriedTokenMismatch' = FALSE
  /\ forceSharedAuthOnce' = FALSE
  /\ connectionState' = connectedState.st
  /\ reconnectAttempts' = connectedState.n
  /\ emitted' = <<StateChange(connectedState.st, connectedState.n), Note("connected")>>
  /\ sock' = [sockBase EXCEPT ![s].timeout = ClearTimeout(@),
                              ![s].promise = Settle(@, "resolved")]
  /\ sent' = <<>>

\* The gateway answers the oldest unanswered connect request on socket s
\* with hello-ok; tok is payload.auth.deviceToken, sk the default session key.
\* The gateway sends its challenge when the socket opens, so on one socket
\* every response is delivered after the challenge.
ServerHelloOk(s, tok, sk) ==
  /\ sock[s].rs = "OPEN"
  /\ sock[s].challenged
  /\ sock[s].out # <<>>
  /\ LET popped == [sock EXCEPT ![s].out = Tail(@)] IN
     IF tok # None /\ providerSupported
     THEN \* deviceToken set, then suspended in persistDeviceToken
          /\ Len(tasks) < MaxTasks
          /\ deviceToken' = tok
          /\ tasks' = Append(tasks, Task("persist", s, 0, None, tok, sk, FALSE))
          /\ sock' = popped
          /\ emitted' = <<>>
          /\ sent' = <<>>
          /\ UNCHANGED <<connectionState, reconnectAttempts, sessionKey,
                         hasRetriedTokenMismatch, forceSharedAuthOnce>>
     ELSE /\ deviceToken' = IF tok # None THEN tok ELSE deviceToken
          /\ FinishHelloOk(s, sk, popped)
          /\ UNCHANGED tasks
  /\ callError' = None
  /\ UNCHANGED <<ws, reconnectTimer, optReconnect, chatVars, config, eventListeners, storeVars, errVars, reqVars, providerToken,
                 lastChallenge, pendingRequests, nSockets>>

\* `await provider.setDeviceToken(token)` completes
ResumePersist(i) ==
  /\ tasks[i].pc = "persist"
  /\ providerToken' = tasks[i].tok
  /\ tasks' = RemoveTask(i)
  /\ FinishHelloOk(tasks[i].s, tasks[i].sk, sock)
  /\ callError' = None
  /\ UNCHANGED <<ws, reconnectTimer, optReconnect, chatVars, config, eventListeners, storeVars, errVars, reqVars, deviceToken,
                 lastChallenge, pendingRequests, nSockets>>

\* shouldRetryAfterTokenMismatch(error); msg is the kind of error message
shouldRetryAfterTokenMismatch(msg) ==
  ~hasRetriedTokenMismatch /\ msg = "mismatch"

\* handleResponse on a response with ok: false whose id is not pending, in
\* the handler of connect() call s: one retry after a token mismatch, else
\* clearTimeout and connectReject.  sockBase: the sockets as the caller left them.
handshakeFailure(s, msg, sockBase) ==
  IF shouldRetryAfterTokenMismatch(msg)
  THEN \* retryConnectAfterTokenMismatch()
       /\ hasRetriedTokenMismatch' = TRUE
       /\ IF providerSupported
          THEN \* suspended in provider.clearDeviceToken()
               /\ Len(tasks) < MaxTasks
               /\ forceSharedAuthOnce' = TRUE
               /\ deviceToken' = None
               /\ tasks' = Append(tasks, Task("clear", s, 0, None, None, None, TRUE))
               /\ sock' = sockBase
               /\ sent' = <<>>
               /\ UNCHANGED lastChallenge
          ELSE ApplyConnectRequest(
                 sendConnectRequest(None, TRUE, lastChallenge, lastChallenge, s, TRUE),
                 sockBase, tasks)
  ELSE \* clearTimeout, connectReject(createError(...))
       /\ sock' = [sockBase EXCEPT ![s].timeout = ClearTimeout(@),
                                   ![s].promise = Settle(@, "rejected_failure")]
       /\ sent' = <<>>
       /\ UNCHANGED <<hasRetriedTokenMismatch, forceSharedAuthOnce, deviceToken,
                      lastChallenge, tasks>>

\* The gateway answers the oldest unanswered connect request on socket s
\* with ok: false.  The id of a connect request is never in pendingRequests.
ServerFailure(s, msg) ==
  /\ sock[s].rs = "OPEN"
  /\ sock[s].challenged
  /\ sock[s].out # <<>>
  /\ handshakeFailure(s, msg, [sock EXCEPT ![s].out = Tail(@)])
  /\ emitted' = <<>>
  /\ callError' = None
  /\ UNCHANGED <<connectionState, reconnectAttempts, ws, reconnectTimer, optReconnect,
                 chatVars, config, eventListeners, storeVars, errVars, reqVars, providerToken, sessionKey, pendingRequests, nSockets>>

\* `await provider.clearDeviceToken()` completes; the retry sends the request
ResumeClear(i) ==
  /\ tasks[i].pc = "clear"
  /\ providerToken' = None
  /\ ApplyConnectRequest(
        sendConnectRequest(deviceToken, forceSharedAuthOnce, lastChallenge,
                           lastChallenge, tasks[i].s, TRUE),
        sock, RemoveTask(i))
  /\ emitted' = <<>>
  /\ callError' = None
  /\ UNCHANGED <<connectionState, reconnectAttempts, ws, reconnectTimer, optReconnect,
                 chatVars, config, eventListeners, storeVars, errVars, reqVars, sessionKey, hasRetriedTokenMismatch, pendingRequests, nSockets>>

\* ---------------------------------------------------------- specification
\* What the gateway sends: challenges carry a nonce, hello-ok carries a
\* default session key and may carry a new device token.
ChallengePayloads == {TRUE}
HelloTokens == {None, "new"}
HelloSessionKeys == {"main"}
FailureMessages == {"mismatch", "other"}

Next ==
  \/ Connect
  \/ ReconnectTimerFires
  \/ Disconnect
  \/ \E s \in Sockets : SocketOpen(s)
  \/ \E s \in Sockets : SocketError(s)
  \/ \E s \in Sockets : SocketClose(s)
  \/ \E s \in Sockets : ConnectionTimeout(s)
  \/ \E s \in Sockets, valid \in ChallengePayloads : ServerChallenge(s, valid)
  \/ \E s \in Sockets, tok \in HelloTokens, sk \in HelloSessionKeys :
        ServerHelloOk(s, tok, sk)
  \/ \E s \in Sockets, msg \in FailureMessages : ServerFailure(s, msg)
  \/ \E i \in 1..Len(tasks) : ResumeGetToken(i)
  \/ \E i \in 1..Len(tasks) : ResumeSign(i)
  \/ \E i \in 1..Len(tasks) : ResumePersist(i)
  \/ \E i \in 1..Len(tasks) : ResumeClear(i)

Spec == Init /\ [][Next]_vars

\* ------------------------------------------------------ request correlator
\* The chat methods of the facade that go through request()
RequestMethods == {"chat.send", "chat.history", "chat.inject"}

\* What the gateway answers to a request: ok, or ok: false with a message
\* that mentions a token mismatch, or with another message.
ResponseKinds == {"ok", "mismatch", "other"}

\* Math.random().toString(36).slice(2): the digits after "0.", none for 0
RandomTails == {<<>>, <<"k">>}

\* send: `${Date.now()}-${Math.random().toString(36).slice(2)}`
idempotencyKey(rnd) == <<"now", "-">> \o rnd

\* The params of getHistory and inject carry no session key
NoParams == [sessionKey |-> None, idempotencyKey |-> <<>>]

\* send: params of chat.send (message and metadata are passed through)
sendParams(rnd) == [sessionKey |-> sessionKey, idempotencyKey |-> idempotencyKey(rnd)]

\* The frame request() hands to sendFrame
RequestFrame(method, id, params) == [method |-> method, id |-> id, params |-> params]

\* Mutant of request: the frame is written whatever the connection state
request_NoGuard(method, params) ==
  /\ messageId < MaxRequests
  /\ messageId' = messageId + 1
  /\ requests' = [requests EXCEPT ![messageId + 1] = NewRequest]
  /\ pendingRequests' = pendingRequests \cup {messageId + 1}
  /\ sent' = IF ws # 0 /\ sock[ws].rs = "OPEN"
             THEN <<RequestFrame(method, messageId + 1, params)>> ELSE <<>>
  /\ callError' = None

\* request(method, params): throws 'Not connected' unless connected; else a
\* new id, its timeout, its pending entry, and the frame through sendFrame.
request(method, params) ==
  IF connectionState # "connected"
  THEN /\ callError' = "not_connected"
       /\ sent' = <<>>
       /\ UNCHANGED <<messageId, requests, pendingRequests>>
  ELSE /\ messageId < MaxRequests
       /\ messageId' = messageId + 1
       /\ requests' = [requests EXCEPT ![messageId + 1] = NewRequest]
       /\ pendingRequests' = pendingRequests \cup {messageId + 1}
       /\ sent' = IF ws # 0 /\ sock[ws].rs = "OPEN"
                  THEN <<RequestFrame(method, messageId + 1, params)>> ELSE <<>>
       /\ callError' = None

\* send / getHistory / inject called by the application; send throws before
\* request() when no session key is known.
ChatCall(method, rnd) ==
  /\ IF method = "chat.send" /\ sessionKey = None
     THEN /\ callError' = "no_session_key"
          /\ sent' = <<>>
          /\ UNCHANGED <<messageId, requests, pendingRequests>>
     ELSE request(method, IF method = "chat.send" THEN sendParams(rnd) ELSE NoParams)
  /\ emitted' = <<>>
  /\ UNCHANGED <<connectionState, reconnectAttempts, ws, reconnectTimer, optReconnect,
                 chatVars, config, eventListeners, storeVars, errVars, providerToken, deviceToken, sessionKey, hasRetriedTokenMismatch,
                 forceSharedAuthOnce, lastChallenge, sock, nSockets, tasks>>

\* Mutant of requestTimedOut: the pending entry is left in the map
requestTimedOut_KeepsEntry(id) ==
  [pending |-> pendingRequests,
   req |-> [requests[id] EXCEPT !.status = Settle(@, "rejected_timeout"),
                                !.timeout = "fired"]]

\* The timeout callback of request(): delete the entry, reject the call
requestTimedOut(id) ==
  [pending |-> pendingRequests \ {id},
   req |-> [requests[id] EXCEPT !.status = Settle(@, "rejected_timeout"),
                                !.timeout = "fired"]]

\* The 30 s timeout of request id fires
RequestTimeout(id) ==
  /\ requests[id].timeout = "armed"
  /\ pendingRequests' = requestTimedOut(id).pending
  /\ requests' = [requests EXCEPT ![id] = requestTimedOut(id).req]
  /\ emitted' = <<>>
  /\ sent' = <<>>
  /\ UNCHANGED <<connectionState, reconnectAttempts, ws, reconnectTimer, optReconnect,
                 chatVars, config, eventListeners, storeVars, errVars, providerToken, deviceToken, sessionKey, hasRetriedTokenMismatch,
                 forceSharedAuthOnce, lastChallenge, sock, nSockets, tasks, messageId>>
  /\ callError' = None

\* Mutant of settleRequest: a failure response rejects every pending request
settleRequest_All(id, kind) ==
  [i \in Ids |-> IF i \in pendingRequests
                 THEN [requests[i] EXCEPT
                         !.status = IF kind = "ok" THEN "resolved" ELSE "rejected_failure",
                         !.timeout = ClearTimeout(@)]
                 ELSE requests[i]]

\* handleResponse on a pending id: clearTimeout, delete, resolve or reject
settleRequest(id, kind) ==
  [requests EXCEPT
     ![id].status = Settle(@, IF kind = "ok" THEN "resolved" ELSE "rejected_failure"),
     ![id].timeout = ClearTimeout(@)]

\* A response frame that is not a hello-ok arrives on socket s with the id
\* of a request the client has issued: handleResponse looks the id up in
\* pendingRequests; an unknown id with ok: false continues into the
\* handshake-failure path of the handler of socket s.
ServerResponse(s, id, kind) ==
  /\ sock[s].rs = "OPEN"
  /\ sock[s].challenged
  /\ id <= messageId
  /\ IF id \in pendingRequests
     THEN /\ pendingRequests' = pendingRequests \ {id}
          /\ requests' = settleRequest(id, kind)
          /\ sent' = <<>>
          /\ UNCHANGED <<sock, hasRetriedTokenMismatch, forceSharedAuthOnce,
                         deviceToken, lastChallenge, tasks>>
     ELSE IF kind # "ok"
     THEN /\ handshakeFailure(s, kind, sock)
          /\ UNCHANGED <<pendingRequests, requests>>
     ELSE /\ sent' = <<>>
          /\ UNCHANGED <<pendingRequests, requests, sock, hasRetriedTokenMismatch,
                         forceSharedAuthOnce, deviceToken, lastChallenge, tasks>>
  /\ emitted' = <<>>
  /\ UNCHANGED <<connectionState, reconnectAttempts, ws, reconnectTimer, optReconnect,
                 chatVars, config, eventListeners, storeVars, errVars, providerToken, sessionKey, nSockets, messageId>>
  /\ callError' = None

\* The request correlator on top of the connection engine, for a client
\* with a bearer token and no device identity provider (no handler is ever
\* suspended) that reconnects at most once; the gateway issues no device
\* token.
InitReq ==
  /\ Init
  /\ providerMode = "none" /\ optToken # None
  /\ maxReconnectAttempts = 1

NextReq ==
  \/ Connect
  \/ ReconnectTimerFires
  \/ Disconnect
  \/ \E s \in Sockets : SocketOpen(s)
  \/ \E s \in Sockets : SocketError(s)
  \/ \E s \in Sockets : SocketClose(s)
  \/ \E s \in Sockets : ConnectionTimeout(s)
  \/ \E s \in Sockets, valid \in ChallengePayloads : ServerChallenge(s, valid)
  \/ \E s \in Sockets, sk \in HelloSessionKeys : ServerHelloOk(s, None, sk)
  \/ \E s \in Sockets, msg \in FailureMessages : ServerFailure(s, msg)
  \/ \E method \in RequestMethods, rnd \in RandomTails : ChatCall(method, rnd)
  \/ \E id \in Ids : RequestTimeout(id)
  \/ \E s \in Sockets, id \in Ids, kind \in ResponseKinds : ServerResponse(s, id, kind)

SpecReq == InitReq /\ [][NextReq]_vars

\* ------------------------------------------------------------ session key
\* The default session key of a hello-ok payload: absent, or one of two keys
SendSessionKeys == {None, "main", "other"}

\* send() on a client without device identity provider, with and without a
\* configured session key, that connects, disconnects and connects again;
\* the gateway issues no device token.
InitSend ==
  /\ Init
  /\ providerMode = "none"
  /\ maxReconnectAttempts = 1

NextSend ==
  \/ Connect
  \/ Disconnect
  \/ \E s \in Sockets : SocketOpen(s)
  \/ \E s \in Sockets : SocketClose(s)
  \/ \E s \in Sockets, valid \in ChallengePayloads : ServerChallenge(s, valid)
  \/ \E s \in Sockets, sk \in SendSessionKeys : ServerHelloOk(s, None, sk)
  \/ \E method \in RequestMethods, rnd \in RandomTails : ChatCall(method, rnd)

SpecSend == InitSend /\ [][NextSend]_vars

\* --------------------------------------------------- streaming reassembler
\* Texts are sequences of characters.  The cumulative texts the gateway
\* sends: prefixes of "Hello", and texts that do not extend them.
Hello == <<"H", "e", "l", "l", "o">>
Texts == {<<>>, SubSeq(Hello, 1, 2), SubSeq(Hello, 1, 3), Hello,
          <<"H", "e", "y">>, <<"J", "e", "l", "l", "o">>}
Runs == 1..MaxRuns
ChatStates == {"delta", "final"}

\* The notifications of the reassembler: event name, message id, text
ChatNote(name, id, text) == [ev |-> name, id |-> id, text |-> text]

\* Mutant of newChunk: the slice starts one character too late
newChunk_OffByOne(fullContent, last) == SubSeq(fullContent, Len(last) + 2, Len(fullContent))

\* Mutant of newChunk: the whole cumulative text is emitted again
newChunk_Whole(fullContent, last) == fullContent

\* fullContent.slice(this.lastStreamedContent.length)
newChunk(fullContent, last) == SubSeq(fullContent, Len(last) + 1, Len(fullContent))

\* Mutant of finalNotes: the stream ends before the message is delivered
finalNotes_EndFirst(run, fullContent) ==
  <<ChatNote("streamEnd", run, <<>>), ChatNote("message", run, fullContent)>>

\* handleChatEvent on state 'final': the message, then the end of the stream
finalNotes(run, fullContent) ==
  <<ChatNote("message", run, fullContent), ChatNote("streamEnd", run, <<>>)>>

\* Mutant of startsStream: every delta starts a stream
startsStream_Always(st) == st = "delta"

\* handleChatEvent: a delta while no run is tracked starts a stream
startsStream(st) == currentStreamingMessageId = 0 /\ st = "delta"

\* handleChatEvent(payload) for run id run, state st and the joined text
\* blocks fullContent: what it emits and the tracked run it leaves.
handleChatEvent(run, st, fullContent) ==
  LET started == startsStream(st)
      cur == IF started THEN run ELSE currentStreamingMessageId
      last == IF started THEN <<>> ELSE lastStreamedContent
      longer == Len(fullContent) > Len(last)
      chunk == newChunk(fullContent, last)
      chunked == longer /\ chunk # <<>> /\ cur # 0
  IN [em |-> (IF started THEN <<ChatNote("streamStart", run, <<>>)>> ELSE <<>>)
             \o (IF chunked THEN <<ChatNote("streamChunk", cur, chunk)>> ELSE <<>>)
             \o (IF st = "final" THEN finalNotes(run, fullContent) ELSE <<>>),
      cur |-> IF st = "final" THEN 0 ELSE cur,
      last |-> IF st = "final" THEN <<>> ELSE IF longer THEN fullContent ELSE last,
      chunk |-> IF chunked THEN chunk ELSE <<>>]

\* A 'chat' event frame arrives on socket s after its handshake succeeded.
ChatEvent(s, run, st, fullContent) ==
  /\ sock[s].rs = "OPEN"
  /\ sock[s].promise = "resolved"
  /\ Len(chatLog) < MaxEvents
  /\ emitted' = handleChatEvent(run, st, fullContent).em
  /\ currentStreamingMessageId' = handleChatEvent(run, st, fullContent).cur
  /\ lastStreamedContent' = handleChatEvent(run, st, fullContent).last
  /\ chatLog' = Append(chatLog, [run |-> run, state |-> st, text |-> fullContent,
                                 tracked |-> currentStreamingMessageId,
                                 chunk |-> handleChatEvent(run, st, fullContent).chunk,
                                 em |-> handleChatEvent(run, st, fullContent).em,
                                 sock |-> s])
  /\ sent' = <<>>
  /\ callError' = None
  /\ UNCHANGED <<connectionState, reconnectAttempts, ws, reconnectTimer, optReconnect,
                 config, eventListeners, storeVars, errVars, reqVars, providerToken, deviceToken, sessionKey,
                 hasRetriedTokenMismatch, forceSharedAuthOnce, lastChallenge,
                 pendingRequests, sock, nSockets, tasks>>

\* The reassembler on a client that connects once: bearer token, no device
\* identity provider, and a gateway that issues no device token.
InitChat ==
  /\ Init
  /\ providerMode = "none" /\ optToken # None
  /\ maxReconnectAttempts = 1

NextChat ==
  \/ Connect
  \/ \E s \in Sockets : SocketOpen(s)
  \/ \E s \in Sockets, valid \in ChallengePayloads : ServerChallenge(s, valid)
  \/ \E s \in Sockets, sk \in HelloSessionKeys : ServerHelloOk(s, None, sk)
  \/ \E s \in Sockets, run \in Runs, st \in ChatStates, fullContent \in Texts :
        ChatEvent(s, run, st, fullContent)

SpecChat == InitChat /\ [][NextChat]_vars

\* The sockets of the client that are connecting or open
LiveSockets == {s \in Sockets : sock[s].rs \in {"CONNECTING", "OPEN"}}

\* The reassembler across a connection loss: the socket closes, the client
\* reconnects (by its timer or by a connect() call made when no socket is
\* live) and chat events go on arriving on the new socket.
NextResume ==
  \/ LiveSockets = {} /\ Connect
  \/ LiveSockets = {} /\ ReconnectTimerFires
  \/ \E s \in Sockets : SocketOpen(s)
  \/ \E s \in Sockets : SocketClose(s)
  \/ \E s \in Sockets, valid \in ChallengePayloads : ServerChallenge(s, valid)
  \/ \E s \in Sockets, sk \in HelloSessionKeys : ServerHelloOk(s, None, sk)
  \/ \E s \in Sockets, run \in Runs, st \in ChatStates, fullContent \in Texts :
        ChatEvent(s, run, st, fullContent)

SpecResume == InitChat /\ [][NextResume]_vars

\* ------------------------------------------- browser device identity provider
\* The operations of the provider that work on the stored record
ProviderOps ==
  {"getOrCreateIdentity", "getDeviceToken", "setDeviceToken", "clearDeviceToken",
   "resetIdentity"}

\* The device tokens setDeviceToken is called with
DeviceTokens == {"t1", "t2"}

\* calls without its i-th element
RemoveCall(i) == SubSeq(calls, 1, i - 1) \o SubSeq(calls, i + 1, Len(calls))

\* store.put(record) / store.delete(key) on the record of one key
storePut(key, rec) == [store EXCEPT ![key] = rec]

\* createRecord(key): a fresh key pair; the id is the hash of its public key
createRecord == [id |-> nKeys + 1, deviceToken |-> None]

\* Mutant of tokenRecord: clearDeviceToken writes the record back as it read it
tokenRecord_ClearKeeps(rec, op, tok) ==
  IF op = "setDeviceToken" THEN [rec EXCEPT !.deviceToken = tok] ELSE rec

\* setDeviceToken / clearDeviceToken: { ...record, deviceToken: token | undefined }
tokenRecord(rec, op, tok) ==
  [rec EXCEPT !.deviceToken = IF op = "setDeviceToken" THEN tok ELSE None]

\* What a provider step leaves alone: the client.
ClientUnchanged ==
  /\ emitted' = <<>>
  /\ sent' = <<>>
  /\ callError' = None
  /\ UNCHANGED <<connectionState, reconnectAttempts, ws, reconnectTimer, optReconnect,
                 chatVars, config, eventListeners, errVars, reqVars, providerToken,
                 deviceToken, sessionKey, hasRetriedTokenMismatch, forceSharedAuthOnce,
                 lastChallenge, pendingRequests, sock, nSockets, tasks>>

\* Call i returns result, the store being storeAfter from then on.
Complete(i, result, storeAfter) ==
  /\ calls' = RemoveCall(i)
  /\ opLog' = Append(opLog, [op |-> calls[i].op, key |-> calls[i].key,
                             arg |-> calls[i].arg, result |-> result,
                             before |-> calls[i].before,
                             started |-> calls[i].started,
                             after |-> storeAfter[calls[i].key]])

\* An operation is called on the provider instance made for gateway g; it
\* runs up to its first await on a database request.
ProviderCall(op, g, tok) ==
  /\ Len(calls) < MaxCalls
  /\ Len(calls) + Len(opLog) < MaxOps
  /\ calls' = Append(calls,
        [op |-> op, key |-> normalizeGatewayKey(g),
         arg |-> IF op = "setDeviceToken" THEN tok ELSE None,
         pc |-> IF op = "resetIdentity" THEN "delete" ELSE "read",
         rec |-> NoRecord, before |-> store[normalizeGatewayKey(g)],
         started |-> Len(opLog)])
  /\ UNCHANGED <<store, opLog, nKeys>>
  /\ ClientUnchanged

\* `await readRecord(db, key)` completes: getDeviceToken returns the token;
\* getOrCreateRecord returns the record, or goes on to create one.
ReadRecord(i) ==
  /\ calls[i].pc = "read"
  /\ LET c == calls[i]
         existing == store[c.key]
     IN IF c.op = "getDeviceToken"
        THEN Complete(i, existing.deviceToken, store)
        ELSE IF existing = NoRecord
        THEN /\ calls' = [calls EXCEPT ![i].pc = "create"]
             /\ UNCHANGED opLog
        ELSE IF c.op = "getOrCreateIdentity"
        THEN Complete(i, existing.id, store)
        ELSE /\ calls' = [calls EXCEPT ![i].pc = "put", ![i].rec = existing]
             /\ UNCHANGED opLog
  /\ UNCHANGED <<store, nKeys>>
  /\ ClientUnchanged

\* getOrCreateRecord: createRecord(key) and `await writeRecord(db, created)`
CreateAndWrite(i) ==
  /\ calls[i].pc = "create"
  /\ nKeys < MaxKeys
  /\ nKeys' = nKeys + 1
  /\ store' = storePut(calls[i].key, createRecord)
  /\ IF calls[i].op = "getOrCreateIdentity"
     THEN Complete(i, createRecord.id, storePut(calls[i].key, createRecord))
     ELSE /\ calls' = [calls EXCEPT ![i].pc = "put", ![i].rec = createRecord]
          /\ UNCHANGED opLog
  /\ ClientUnchanged

\* setDeviceToken / clearDeviceToken: `await writeRecord(db, {...record, deviceToken})`
WriteToken(i) ==
  /\ calls[i].pc = "put"
  /\ LET c == calls[i]
         after == storePut(c.key, tokenRecord(c.rec, c.op, c.arg))
     IN /\ store' = after
        /\ Complete(i, None, after)
  /\ UNCHANGED nKeys
  /\ ClientUnchanged

\* resetIdentity: `await deleteRecord(db, key)`
DeleteRecord(i) ==
  /\ calls[i].pc = "delete"
  /\ store' = storePut(calls[i].key, NoRecord)
  /\ Complete(i, None, storePut(calls[i].key, NoRecord))
  /\ UNCHANGED nKeys
  /\ ClientUnchanged

\* Provider instances of several gateway URLs working on one store, their
\* calls overlapping.
NextStore ==
  \/ \E op \in ProviderOps, g \in Gateways : ProviderCall(op, g, "t1")
  \/ \E i \in 1..Len(calls) : ReadRecord(i)
  \/ \E i \in 1..Len(calls) : CreateAndWrite(i)
  \/ \E i \in 1..Len(calls) : WriteToken(i)
  \/ \E i \in 1..Len(calls) : DeleteRecord(i)

SpecStore == Init /\ [][NextStore]_vars

\* The same with every call awaited before the next one is made.
NextStoreSeq ==
  \/ \E op \in ProviderOps, g \in Gateways, tok \in DeviceTokens :
        calls = <<>> /\ ProviderCall(op, g, tok)
  \/ \E i \in 1..Len(calls) : ReadRecord(i)
  \/ \E i \in 1..Len(calls) : CreateAndWrite(i)
  \/ \E i \in 1..Len(calls) : WriteToken(i)
  \/ \E i \in 1..Len(calls) : DeleteRecord(i)

SpecStoreSeq == Init /\ [][NextStoreSeq]_vars

\* ------------------------------------------------------------ other frames
\* Messages the transport delivers besides the handshake, responses and
\* well-formed chat events: text that is not JSON, a frame whose type is
\* none of req/res/event, an event with an unknown name, a tick, and a chat
\* event whose payload is missing (reading payload.state throws).
FrameKinds == {"malformed", "unknown_type", "unknown_event", "tick", "bad_chat_payload"}

\* JSON.parse or the frame's handler throws
frameThrows(kind) == kind \in {"malformed", "bad_chat_payload"}

\* Mutant of onMessageError: the exception leaves the message callback
onMessageError_Uncaught(kind) == IF frameThrows(kind) THEN "uncaught" ELSE None

\* ws.onmessage: `try { JSON.parse; await handleFrame } catch (err) { log }`;
\* the error that leaves the callback.
onMessageError(kind) == None

\* ws.onmessage for such a message on socket s: handleFrame's switch and
\* handleEvent's switch have no case that does anything for it.
OtherFrame(s, kind) ==
  /\ sock[s].rs = "OPEN"
  /\ callError' = onMessageError(kind)
  /\ emitted' = <<>>
  /\ sent' = <<>>
  /\ UNCHANGED <<connectionState, reconnectAttempts, ws, reconnectTimer, optReconnect,
                 chatVars, config, eventListeners, storeVars, errVars, reqVars,
                 providerToken, deviceToken, sessionKey, hasRetriedTokenMismatch,
                 forceSharedAuthOnce, lastChallenge, pendingRequests, sock, nSockets, tasks>>

\* The handshake of a client with a working device identity provider, whose
\* handlers suspend at the provider's awaits, on a gateway that also sends
\* other frames; at most one reconnect.
InitFrames ==
  /\ Init
  /\ providerMode = "supported"
  /\ maxReconnectAttempts = 1

NextFrames ==
  \/ Connect
  \/ \E s \in Sockets : SocketOpen(s)
  \/ \E s \in Sockets : SocketClose(s)
  \/ \E s \in Sockets, valid \in ChallengePayloads : ServerChallenge(s, valid)
  \/ \E s \in Sockets, tok \in HelloTokens, sk \in HelloSessionKeys :
        ServerHelloOk(s, tok, sk)
  \/ \E s \in Sockets, msg \in FailureMessages : ServerFailure(s, msg)
  \/ \E s \in Sockets, kind \in FrameKinds : OtherFrame(s, kind)
  \/ \E i \in 1..Len(tasks) : ResumeGetToken(i)
  \/ \E i \in 1..Len(tasks) : ResumeSign(i)
  \/ \E i \in 1..Len(tasks) : ResumePersist(i)
  \/ \E i \in 1..Len(tasks) : ResumeClear(i)

SpecFrames == InitFrames /\ [][NextFrames]_vars

\* Connect attempts made one after another against a gateway whose only
\* handshake failure is a token mismatch: connect() is called again only
\* after the promise of the previous call has settled.
InitRetry ==
  /\ Init
  /\ maxReconnectAttempts = 1

NextRetry ==
  \/ (\A r \in Sockets : sock[r].promise # "pending") /\ Connect
  \/ \E s \in Sockets : SocketOpen(s)
  \/ \E s \in Sockets, valid \in ChallengePayloads : ServerChallenge(s, valid)
  \/ \E s \in Sockets, tok \in HelloTokens, sk \in HelloSessionKeys :
        ServerHelloOk(s, tok, sk)
  \/ \E s \in Sockets : ServerFailure(s, "mismatch")
  \/ \E s \in Sockets : SocketClose(s)
  \/ \E i \in 1..Len(tasks) : ResumeGetToken(i)
  \/ \E i \in 1..Len(tasks) : ResumeSign(i)
  \/ \E i \in 1..Len(tasks) : ResumePersist(i)
  \/ \E i \in 1..Len(tasks) : ResumeClear(i)

SpecRetry == InitRetry /\ [][NextRetry]_vars

\* Settling of connect(): the whole connection engine on a client without
\* a reconnect limit above one, under the scheduling the runtime gives:
\* an armed timer fires unless it is cleared, a suspended handler resumes
\* when the provider's promise resolves, and a socket that is closing or has
\* failed delivers its close event.  The gateway owes nothing.
InitSettle ==
  /\ Init
  /\ maxReconnectAttempts = 1

ClosePending == \E s \in Sockets : sock[s].rs \in {"CLOSING", "ERRORED"} /\ SocketClose(s)

ResumeTask ==
  \E i \in 1..Len(tasks) :
    ResumeGetToken(i) \/ ResumeSign(i) \/ ResumePersist(i) \/ ResumeClear(i)

Fairness ==
  /\ WF_vars(\E s \in Sockets : ConnectionTimeout(s))
  /\ WF_vars(ReconnectTimerFires)
  /\ WF_vars(ClosePending)
  /\ WF_vars(ResumeTask)

\* The application calls connect() only when no socket of an earlier call
\* is connecting or open.
NextSettle ==
  \/ LiveSockets = {} /\ Connect
  \/ ReconnectTimerFires
  \/ Disconnect
  \/ \E s \in Sockets : SocketOpen(s)
  \/ \E s \in Sockets : SocketError(s)
  \/ \E s \in Sockets : SocketClose(s)
  \/ \E s \in Sockets : ConnectionTimeout(s)
  \/ \E s \in Sockets, valid \in ChallengePayloads : ServerChallenge(s, valid)
  \/ \E s \in Sockets, tok \in HelloTokens, sk \in HelloSessionKeys :
        ServerHelloOk(s, tok, sk)
  \/ \E s \in Sockets, msg \in FailureMessages : ServerFailure(s, msg)
  \/ ResumeTask

SpecSettle == InitSettle /\ [][NextSettle]_vars /\ Fairness

\* The gateway sends connect.challenge again on a socket it has already
\* challenged: handleRequest / handleEvent run sendConnectRequest as for
\* the first one.
RepeatedChallenge(s, valid) ==
  /\ sock[s].rs = "OPEN"
  /\ sock[s].challenged
  /\ Len(sock[s].out) < MaxOut
  /\ ApplyConnectRequest(
        sendConnectRequest(deviceToken, forceSharedAuthOnce, lastChallenge,
                           parseChallenge(valid), s, FALSE),
        sock, tasks)
  /\ emitted' = <<>>
  /\ callError' = None
  /\ UNCHANGED <<connectionState, reconnectAttempts, ws, reconnectTimer, optReconnect,
                 chatVars, config, eventListeners, storeVars, errVars, reqVars,
                 providerToken, sessionKey, hasRetriedTokenMismatch,
                 pendingRequests, nSockets>>

\* Handshake frames outside the handshake: one connection at a time, a
\* gateway that may repeat its challenge and may answer a request after the
\* client has given it up.
InitStray ==
  /\ Init
  /\ maxReconnectAttempts = 1

NextStray ==
  \/ LiveSockets = {} /\ Connect
  \/ \E s \in Sockets : SocketOpen(s)
  \/ \E s \in Sockets, valid \in ChallengePayloads : ServerChallenge(s, valid)
  \/ \E s \in Sockets, valid \in ChallengePayloads : RepeatedChallenge(s, valid)
  \/ \E s \in Sockets, tok \in HelloTokens, sk \in HelloSessionKeys :
        ServerHelloOk(s, tok, sk)
  \/ \E method \in RequestMethods, rnd \in RandomTails : ChatCall(method, rnd)
  \/ \E id \in Ids : RequestTimeout(id)
  \/ \E s \in Sockets, id \in Ids, kind \in ResponseKinds : ServerResponse(s, id, kind)
  \/ \E i \in 1..Len(tasks) : ResumeGetToken(i)
  \/ \E i \in 1..Len(tasks) : ResumeSign(i)
  \/ \E i \in 1..Len(tasks) : ResumePersist(i)
  \/ \E i \in 1..Len(tasks) : ResumeClear(i)

SpecStray == InitStray /\ [][NextStray]_vars

\* Such frames on a client with requests pending and a stream under way:
\* bearer token, no device identity provider, chat events of one run.
InitDrop ==
  /\ Init
  /\ providerMode = "none" /\ optToken # None
  /\ maxReconnectAttempts = 1

NextDrop ==
  \/ Connect
  \/ \E s \in Sockets : SocketOpen(s)
  \/ \E s \in Sockets : SocketError(s)
  \/ \E s \in Sockets, valid \in ChallengePayloads : ServerChallenge(s, valid)
  \/ \E s \in Sockets, sk \in HelloSessionKeys : ServerHelloOk(s, None, sk)
  \/ \E method \in RequestMethods, rnd \in RandomTails : ChatCall(method, rnd)
  \/ \E s \in Sockets, st \in ChatStates, fullContent \in {SubSeq(Hello, 1, 3), Hello} :
        ChatEvent(s, 1, st, fullContent)
  \/ \E s \in Sockets, kind \in FrameKinds : OtherFrame(s, kind)

SpecDrop == InitDrop /\ [][NextDrop]_vars

\* --------------------------------------------------------- event listeners
\* The callbacks the application registers; "h2" throws whenever it is called.
Handlers == {"h1", "h2", "h3"}
ThrowingHandlers == {"h2"}

\* s without its elements equal to h
RECURSIVE Without(_, _)
Without(s, h) ==
  IF s = <<>> THEN <<>>
  ELSE IF Head(s) = h THEN Without(Tail(s), h) ELSE <<Head(s)>> \o Without(Tail(s), h)

\* Mutant of tryCallback: the call is not wrapped in try/catch
tryCallback_Uncaught(h) == [propagates |-> h \in ThrowingHandlers, logged |-> FALSE]

\* emit: `try { callback(...args) } catch (err) { this.log(...) }`
tryCallback(h) == [propagates |-> FALSE, logged |-> h \in ThrowingHandlers]

\* emit: listeners.forEach over the callbacks hs, in insertion order; an
\* exception that leaves a callback's invocation ends the loop.
RECURSIVE forEachListener(_)
forEachListener(hs) ==
  IF hs = <<>> THEN [invoked |-> <<>>, propagated |-> FALSE]
  ELSE IF tryCallback(Head(hs)).propagates
       THEN [invoked |-> <<Head(hs)>>, propagated |-> TRUE]
       ELSE [invoked |-> <<Head(hs)>> \o forEachListener(Tail(hs)).invoked,
             propagated |-> forEachListener(Tail(hs)).propagated]

\* emit(event): the callbacks it invokes, and whether an exception leaves it
emit(event) ==
  IF event \in DOMAIN eventListeners
  THEN forEachListener(eventListeners[event])
  ELSE [invoked |-> <<>>, propagated |-> FALSE]

\* on(event, callback): Set.add keeps a callback already registered in place
On(event, h) ==
  /\ eventListeners' =
       [eventListeners EXCEPT
          ![event] = IF \E i \in 1..Len(@) : @[i] = h THEN @ ELSE Append(@, h)]
  /\ emitted' = <<>>
  /\ sent' = <<>>
  /\ callError' = None
  /\ UNCHANGED <<connectionState, reconnectAttempts, ws, reconnectTimer, optReconnect,
                 chatVars, config, storeVars, errVars, reqVars, providerToken, deviceToken,
                 sessionKey, hasRetriedTokenMismatch, forceSharedAuthOnce, lastChallenge,
                 pendingRequests, sock, nSockets, tasks>>

\* off(event, callback)
Off(event, h) ==
  /\ eventListeners' = [eventListeners EXCEPT ![event] = Without(@, h)]
  /\ emitted' = <<>>
  /\ sent' = <<>>
  /\ callError' = None
  /\ UNCHANGED <<connectionState, reconnectAttempts, ws, reconnectTimer, optReconnect,
                 chatVars, config, storeVars, errVars, reqVars, providerToken, deviceToken,
                 sessionKey, hasRetriedTokenMismatch, forceSharedAuthOnce, lastChallenge,
                 pendingRequests, sock, nSockets, tasks>>

\* Callbacks registered and removed on a client that connects: bearer token,
\* no device identity provider, a gateway that issues no device token.
InitEmit ==
  /\ Init
  /\ providerMode = "none" /\ optToken # None
  /\ maxReconnectAttempts = 1

NextEmit ==
  \/ \E event \in ListenedEvents, h \in Handlers : On(event, h)
  \/ \E event \in ListenedEvents, h \in Handlers : Off(event, h)
  \/ Connect
  \/ \E s \in Sockets : SocketOpen(s)
  \/ \E s \in Sockets : SocketError(s)
  \/ \E s \in Sockets, valid \in ChallengePayloads : ServerChallenge(s, valid)
  \/ \E s \in Sockets, sk \in HelloSessionKeys : ServerHelloOk(s, None, sk)

SpecEmit == InitEmit /\ [][NextEmit]_vars

\* ------------------------------------------------------ error classification
\* Texts are sequences of characters.  The pieces error messages are made of:
MissingScopeText == <<"m", "i", "s", "s", "i", "n", "g", " ", "s", "c", "o", "p", "e", ":", " ">>
MissingScopeCaps == <<"M", "i", "s", "s", "i", "n", "g", " ", "S", "c", "o", "p", "e", ":", " ">>
OperatorWriteText == <<"o", "p", "e", "r", "a", "t", "o", "r", ".", "w", "r", "i", "t", "e">>
OperatorWriteCaps == <<"O", "P", "E", "R", "A", "T", "O", "R", ".", "W", "R", "I", "T", "E">>
ChatWriteText == <<"c", "h", "a", "t", ".", "w", "r", "i", "t", "e">>
PairingText == <<"p", "a", "i", "r", "i", "n", "g", " ", "r", "e", "q", "u", "i", "r", "e", "d">>
RepairingCaps == <<"R", "e", "p", "a", "i", "r", "i", "n", "g">>
DeniedText == <<"d", "e", "n", "i", "e", "d">>

MessagePieces == {MissingScopeText, MissingScopeCaps, OperatorWriteText, OperatorWriteCaps, ChatWriteText, PairingText, RepairingCaps, DeniedText}

\* The messages of error payloads: absent, one piece, or two pieces joined
ErrorMessages == {<<>>} \cup MessagePieces \cup {a \o b : a \in {MissingScopeText, MissingScopeCaps, PairingText, DeniedText}, b \in MessagePieces}

\* The raw codes of error payloads (None when absent)
RawCodes == {None, "AUTH_FAILED", "INVALID_REQUEST", "PAIRING_REQUIRED", "RATE_LIMITED"}

\* The fallback messages handleResponse passes to createError
Fallbacks == {<<"R", "e", "q", "u", "e", "s", "t", " ", "f", "a", "i", "l", "e", "d">>, <<"C", "o", "n", "n", "e", "c", "t", "i", "o", "n", " ", "f", "a", "i", "l", "e", "d">>}

\* String.prototype.toLowerCase on the letters that occur
LowerCase == [c \in {"A", "E", "I", "M", "O", "P", "R", "S", "T", "W"} |-> CASE c = "A" -> "a" [] c = "E" -> "e" [] c = "I" -> "i" [] c = "M" -> "m" [] c = "O" -> "o" [] c = "P" -> "p" [] c = "R" -> "r" [] c = "S" -> "s" [] c = "T" -> "t" [] c = "W" -> "w"]
toLowerCase(s) == [i \in 1..Len(s) |-> IF s[i] \in DOMAIN LowerCase THEN LowerCase[s[i]] ELSE s[i]]

\* String.prototype.includes
includes(s, needle) ==
  \E i \in 0..(Len(s) - Len(needle)) : SubSeq(s, i + 1, i + Len(needle)) = needle

\* Mutant of classifyErrorCode: the raw code is looked at before the message
classifyErrorCode_CodeFirst(error) ==
  LET message == toLowerCase(error.message) IN
  IF error.code \in {"AUTH_FAILED", "INVALID_REQUEST", "PAIRING_REQUIRED"} THEN error.code
  ELSE IF includes(message, <<"m", "i", "s", "s", "i", "n", "g", " ", "s", "c", "o", "p", "e">>) /\ includes(message, <<"o", "p", "e", "r", "a", "t", "o", "r", ".", "w", "r", "i", "t", "e">>)
  THEN "SCOPE_MISSING_WRITE"
  ELSE IF includes(message, <<"p", "a", "i", "r", "i", "n", "g">>) THEN "PAIRING_REQUIRED"
  ELSE "UNKNOWN"

\* classifyErrorCode(error)
classifyErrorCode(error) ==
  LET code == error.code
      message == toLowerCase(error.message)
  IN IF includes(message, <<"m", "i", "s", "s", "i", "n", "g", " ", "s", "c", "o", "p", "e">>) /\ includes(message, <<"o", "p", "e", "r", "a", "t", "o", "r", ".", "w", "r", "i", "t", "e">>)
     THEN "SCOPE_MISSING_WRITE"
     ELSE IF includes(message, <<"p", "a", "i", "r", "i", "n", "g">>) THEN "PAIRING_REQUIRED"
     ELSE IF code = "AUTH_FAILED" THEN "AUTH_FAILED"
     ELSE IF code = "INVALID_REQUEST" THEN "INVALID_REQUEST"
     ELSE IF code = "PAIRING_REQUIRED" THEN "PAIRING_REQUIRED"
     ELSE "UNKNOWN"

\* createError(error, fallback)
createError(error, fallback) ==
  [message |-> IF error.message # <<>> THEN error.message ELSE fallback,
   code |-> classifyErrorCode(error),
   rawCode |-> error.code]

\* handleResponse makes the error of a response with ok: false:
\* createError(frame.error, 'Request failed' | 'Connection failed')
CreateError(error, fallback) ==
  /\ errorPayload' = error
  /\ clientError' = createError(error, fallback)
  /\ emitted' = <<>>
  /\ sent' = <<>>
  /\ callError' = None
  /\ UNCHANGED <<connectionState, reconnectAttempts, ws, reconnectTimer, optReconnect,
                 chatVars, config, eventListeners, storeVars, reqVars, providerToken,
                 deviceToken, sessionKey, hasRetriedTokenMismatch, forceSharedAuthOnce,
                 lastChallenge, pendingRequests, sock, nSockets, tasks>>

\* The classification of every error payload the gateway may send.
NextClassify ==
  \E code \in RawCodes, message \in ErrorMessages, fallback \in Fallbacks :
     CreateError([code |-> code, message |-> message], fallback)

SpecClassify == Init /\ [][NextClassify]_vars

\* ================================================================ claims
\* Socket s receives its close event in this step.
ClosedIn(s) == sock[s].rs # "CLOSED" /\ sock'[s].rs = "CLOSED"

\* C1: whenever a hello-ok has just been processed ('connected' emitted),
\* connectionState is 'connected' and the reconnect attempt counter is 0.
C1_HelloOkConnectsAndResets ==
  Emits("connected") => connectionState = "connected" /\ reconnectAttempts = 0

\* C1 witness: a reconnect (socket 2, after socket 1 was connected and lost
\* with auto-reconnect on) has just completed its handshake.
C1_Witness ==
  /\ Emits("connected")
  /\ optReconnect /\ maxReconnectAttempts # 0
  /\ sock[1].promise = "resolved" /\ sock[1].rs = "CLOSED"
  /\ sock[2].promise = "resolved" /\ sock[2].rs = "OPEN"

RetryStarted == hasRetriedTokenMismatch' /\ ~hasRetriedTokenMismatch

\* C3: within one connect attempt s, when the retried connect request of
\* that attempt is itself answered with a token mismatch, no further retry
\* starts, no connect request is sent and the connect() call is rejected.
C3_SecondMismatchIsTerminal ==
  [][\A s \in Sockets :
       (/\ ServerFailure(s, "mismatch")
        /\ Head(sock[s].out).retry /\ Head(sock[s].out).via = s
        /\ sock[s].promise = "pending")
       => /\ ~RetryStarted
          /\ sent' = <<>>
          /\ sock'[s].promise = "rejected_failure"]_vars

\* The credential configured in the options: bearer token, else password.
SharedCredential ==
  IF optToken # None THEN optToken ELSE IF optPassword THEN "password" ELSE None

\* C4: the connect request of a token-mismatch retry carries the configured
\* bearer token (or password), never a device token; the step that starts
\* the retry drops the in-memory token, and without a provider it sends
\* exactly that one request at once.
C4_RetryUsesSharedCredential ==
  /\ [](\A i \in 1..Len(sent) : sent[i].retry => sent[i].auth = SharedCredential)
  /\ [][RetryStarted =>
          /\ deviceToken' = None
          /\ (~providerSupported /\ ws # 0 /\ sock[ws].rs = "OPEN")
               => (Len(sent') = 1 /\ sent'[1].retry)]_vars

\* C5: disconnect() leaves no reconnect timer armed and the state
\* 'disconnected'; from then on (auto-reconnect is off) the state enters
\* 'connecting' and a socket is created only by a connect() call of the
\* application.
C5_DisconnectCancelsReconnect ==
  [][/\ Disconnect => (connectionState' = "disconnected" /\ ~reconnectTimer' /\ ws' = 0)
     /\ (~optReconnect /\ (nSockets' # nSockets
                             \/ (connectionState' = "connecting"
                                  /\ connectionState # "connecting")))
        => Connect]_vars

\* C5 witness: disconnect() has just been called while a reconnect was
\* pending (first socket lost, one attempt notified, no second socket yet).
C5_Witness ==
  /\ emitted = <<StateChange("disconnected", 1), Note("disconnected")>>
  /\ reconnectAttempts = 1 /\ nSockets = 1 /\ sock[1].rs = "CLOSED"
  /\ ~optReconnect /\ ~reconnectTimer /\ connectionState = "disconnected"

\* C6: disconnect() switches auto-reconnect off, and once it is off it stays
\* off: no later step moves the state to 'reconnecting' or arms the timer.
C6_ReconnectStaysDisabled ==
  [][/\ Disconnect => ~optReconnect'
     /\ ~optReconnect => (/\ ~optReconnect'
                          /\ connectionState' # "reconnecting"
                          /\ ~reconnectTimer'
                          /\ reconnectAttempts' <= reconnectAttempts)]_vars

\* C6 witness: after a disconnect(), a second connect() succeeded and its
\* socket has just closed: the client is 'disconnected', nothing scheduled.
C6_Witness ==
  /\ ~optReconnect /\ maxReconnectAttempts = -1
  /\ sock[2].promise = "resolved" /\ sock[2].rs = "CLOSED"
  /\ emitted = <<Note("disconnected"), StateChange("disconnected", 0)>>
  /\ connectionState = "disconnected" /\ ~reconnectTimer

\* Socket s receives its error event in this step.
ErroredIn(s) == sock[s].rs # "ERRORED" /\ sock'[s].rs = "ERRORED"

\* C7: a socket close or error while connecting, authenticating or connected
\* leads to 'reconnecting' with the timer armed when auto-reconnect is on
\* and attempts remain, and to 'disconnected' with no timer armed otherwise.
C7_CloseOrErrorDecides ==
  [][\A s \in Sockets :
       ((ClosedIn(s) \/ ErroredIn(s))
          /\ connectionState \in {"connecting", "authenticating", "connected"})
       => IF optReconnect /\ shouldReconnect
          THEN connectionState' = "reconnecting" /\ reconnectTimer'
          ELSE connectionState' = "disconnected" /\ ~reconnectTimer']_vars

\* The 'reconnecting' notifications of the last step.
ReconnectingNotes == {i \in 1..Len(emitted) : emitted[i].ev = "reconnecting"}

\* C8: the counter changes only by a scheduled reconnect, which adds one,
\* arms the timer and notifies exactly the new value, or by a hello-ok, which
\* resets it; every 'reconnecting' notification carries the counter; and
\* unless the maximum is -1 the counter never exceeds it.
C8_AttemptsCountUp ==
  /\ [](\A i \in ReconnectingNotes : emitted[i].n = reconnectAttempts)
  /\ [](maxReconnectAttempts # -1 => reconnectAttempts <= maxReconnectAttempts)
  /\ [][/\ reconnectAttempts' # reconnectAttempts
           => \/ /\ reconnectAttempts' = reconnectAttempts + 1
                 /\ reconnectTimer' /\ connectionState' = "reconnecting"
                 /\ Cardinality(ReconnectingNotes') = 1
              \/ reconnectAttempts' = 0 /\ Emits("connected")'
        /\ ReconnectingNotes' # {} => reconnectAttempts' = reconnectAttempts + 1]_vars

\* C8 witness: the second consecutive reconnect has just been notified as 2.
C8_Witness ==
  /\ emitted = <<StateChange("reconnecting", 2), NoteN("reconnecting", 2)>>
  /\ reconnectAttempts = 2 /\ reconnectTimer

\* C9: when the connection timeout of connect() call s fires, the call is
\* rejected with the timeout error and the socket of that call is closed or
\* closing; the timeout is not armed once the call's handshake succeeded.
C9_TimeoutRejectsAndCloses ==
  /\ [](\A s \in Sockets : sock[s].promise = "resolved" => sock[s].timeout # "armed")
  /\ [][\A s \in Sockets :
          (sock[s].timeout = "armed" /\ sock'[s].timeout = "fired")
          => /\ sock'[s].promise = "rejected_timeout"
             /\ sock'[s].rs \in {"CLOSING", "ERRORED", "CLOSED"}]_vars

\* C10: a handshake failure response that rejects the in-flight connect()
\* call also emits an 'error' notification.
C10_FailureEmitsError ==
  [][\A s \in Sockets :
       (sock[s].promise = "pending" /\ sock'[s].promise = "rejected_failure")
       => Emits("error")']_vars

\* The credential the preference order selects in the current state: the
\* device token the client holds, else the configured bearer token, else the
\* configured password, else none.
PreferredCredential ==
  IF deviceToken # None THEN deviceToken ELSE SharedCredential

\* This step runs sendConnectRequest through its choice of the credential
\* (after the stored token, if any, was loaded).
CredentialChosen ==
  \/ \E s \in Sockets, valid \in ChallengePayloads : ServerChallenge(s, valid)
  \/ \E i \in 1..Len(tasks) : ResumeGetToken(i) \/ ResumeClear(i)
  \/ \E s \in Sockets : ServerFailure(s, "mismatch") /\ RetryStarted

\* C11: whenever a connect request's credential is chosen, it is the device
\* token if the client holds one (in memory or loaded from the provider),
\* otherwise the bearer token, otherwise the password, otherwise nothing; the
\* request then carries that one credential.
C11_CredentialByPreference ==
  [][CredentialChosen =>
       /\ (tasks' # <<>> /\ tasks'[Len(tasks')].pc = "sign")
            => tasks'[Len(tasks')].auth = PreferredCredential'
       /\ (~providerSupported /\ sent' # <<>>)
            => sent'[1].auth = PreferredCredential']_vars

\* The credential chosen by the sendConnectRequest run of this step: it is
\* kept by the continuation suspended at signChallenge, or written at once.
ChosenCredential ==
  IF tasks # <<>> /\ tasks[Len(tasks)].pc = "sign"
  THEN tasks[Len(tasks)].auth
  ELSE IF sent # <<>> THEN sent[1].auth ELSE None

\* The choice of this step can be observed: a continuation keeps it or a
\* frame carries it (a frame is dropped when this.ws is not open).
ChoiceVisible ==
  \/ tasks # <<>> /\ tasks[Len(tasks)].pc = "sign"
  \/ sent # <<>>

\* C12: a hello-ok carrying a device token T makes T the in-memory token and
\* stores T through the provider when it is supported; and once the first
\* socket's handshake succeeded and T is held (in memory, or in the provider
\* when the handshake loads it), the handshake of the later socket chooses T.
C12_TokenPersistedAndReused ==
  [][/\ \A s \in Sockets, sk \in HelloSessionKeys :
          ServerHelloOk(s, "new", sk) =>
            /\ deviceToken' = "new"
            /\ providerSupported =>
                  \E i \in 1..Len(tasks') : tasks'[i].pc = "persist" /\ tasks'[i].tok = "new"
     /\ \A i \in 1..Len(tasks) : ResumePersist(i) => providerToken' = tasks[i].tok
     /\ (sock[1].promise = "resolved" /\ sock[1].rs = "CLOSED") =>
          /\ \A valid \in ChallengePayloads :
                (ServerChallenge(2, valid) /\ deviceToken = "new" /\ ChoiceVisible')
                  => ChosenCredential' = "new"
          /\ \A i \in 1..Len(tasks) :
                (ResumeGetToken(i) /\ tasks[i].s = 2 /\ providerToken = "new" /\ ChoiceVisible')
                  => ChosenCredential' = "new"]_vars

\* C12 witness: the first socket's handshake succeeded and the socket is
\* gone; the token of its hello-ok is stored in the provider, and the
\* connect request of the second socket has just been written with it,
\* although a bearer token is configured.
C12_Witness ==
  /\ sock[1].promise = "resolved" /\ sock[1].rs = "CLOSED"
  /\ providerSupported /\ providerToken = "new" /\ deviceToken = "new"
  /\ optToken = "bearer" /\ ws = 2 /\ sock[2].rs = "OPEN"
  /\ Len(sent) = 1 /\ sent[1].via = 2 /\ ~sent[1].retry /\ sent[1].auth = "new"

\* A chat call that reaches request(): getHistory and inject always, send
\* once a session key is known.
ReachesRequest(method) == ~(method = "chat.send" /\ sessionKey = None)

C14_CloseRejectsPending ==
  [][/\ \A s \in Sockets : ClosedIn(s) =>
          /\ pendingRequests' = {}
          /\ \A id \in pendingRequests :
                /\ requests'[id].status = "rejected_disconnected"
                /\ requests'[id].timeout = "cleared"
     /\ \A s \in Sockets, id \in Ids, kind \in ResponseKinds :
          (requests[id].via # 0 /\ s > requests[id].via /\ ServerResponse(s, id, kind))
          => requests'[id] = requests[id]]_vars

\* C15: when the timeout of a request fires, its pending entry is removed
\* and the call fails with the timeout error; a response with that id that
\* arrives afterwards settles nothing, writes nothing and changes no state.
C15_TimeoutThenLateResponse ==
  [][/\ \A id \in Ids : RequestTimeout(id) =>
          /\ id \notin pendingRequests'
          /\ requests'[id].status = "rejected_timeout"
     /\ \A s \in Sockets, id \in Ids, kind \in ResponseKinds :
          (requests[id].status = "rejected_timeout" /\ ServerResponse(s, id, kind))
          => /\ sent' = <<>> /\ emitted' = <<>>
             /\ UNCHANGED <<connectionState, reconnectAttempts, ws, reconnectTimer,
                            optReconnect, chatVars, config, eventListeners, storeVars, errVars, providerToken, deviceToken, sessionKey,
                            hasRetriedTokenMismatch, forceSharedAuthOnce, lastChallenge,
                            pendingRequests, sock, nSockets, tasks, messageId,
                            requests>>]_vars

\* C16: a failure response whose id is pending rejects that request only:
\* every other request is as it was, and the connection state, the socket,
\* the reconnect counter and timer are unchanged; nothing is written.
C16_FailureRejectsOnlyItsRequest ==
  [][\A s \in Sockets, id \in Ids, kind \in ResponseKinds :
       (kind # "ok" /\ id \in pendingRequests /\ ServerResponse(s, id, kind))
       => /\ requests'[id].status = "rejected_failure"
          /\ \A other \in Ids \ {id} : requests'[other] = requests[other]
          /\ pendingRequests' = pendingRequests \ {id}
          /\ sent' = <<>> /\ emitted' = <<>>
          /\ UNCHANGED <<connectionState, reconnectAttempts, reconnectTimer, ws, sock,
                         hasRetriedTokenMismatch, forceSharedAuthOnce, deviceToken>>]_vars

\* C16 witness: of two requests pending on a connected client, the first has
\* been rejected by its failure response and the second is still pending.
C16_Witness ==
  /\ requests[1].status = "rejected_failure" /\ requests[1].timeout = "cleared"
  /\ requests[2].status = "pending" /\ requests[2].timeout = "armed"
  /\ pendingRequests = {2} /\ connectionState = "connected"
  /\ ws # 0 /\ sock[ws].rs = "OPEN" /\ reconnectAttempts = 0

\* ---- the record of chat events, read as runs
\* The first event of the stretch of events that event j belongs to: the
\* one after the latest final event before j (or the first event of all).
RECURSIVE SegStart(_)
SegStart(j) ==
  IF j = 1 \/ chatLog[j - 1].state = "final" THEN j ELSE SegStart(j - 1)

\* The chunk texts emitted by the events i..j, concatenated in order.
RECURSIVE ChunksOf(_, _)
ChunksOf(i, j) == IF i > j THEN <<>> ELSE ChunksOf(i, j - 1) \o chatLog[j].chunk

\* The events i..j all carry the run id of event j.
OneRun(i, j) == \A k \in i..j : chatLog[k].run = chatLog[j].run

\* The cumulative text never gets shorter from event i to event j.
LengthsGrow(i, j) == \A k \in i..(j - 1) : Len(chatLog[k].text) <= Len(chatLog[k + 1].text)

\* a is a prefix of b
IsPrefix(a, b) == Len(a) <= Len(b) /\ SubSeq(b, 1, Len(a)) = a

\* Each cumulative text from event i to event j extends the one before it.
TextsAppend(i, j) == \A k \in i..(j - 1) : IsPrefix(chatLog[k].text, chatLog[k + 1].text)

\* The events that are final events
Finals == {j \in 1..Len(chatLog) : chatLog[j].state = "final"}

\* C17 as stated: for the delta events (one at least) of one run with never decreasing
\* text length, followed by the run's final event, the emitted chunk texts
\* concatenated equal the final cumulative text.
C17_ChunksSumToFinalText ==
  \A j \in Finals :
    (SegStart(j) < j /\ OneRun(SegStart(j), j) /\ LengthsGrow(SegStart(j), j))
    => ChunksOf(SegStart(j), j) = chatLog[j].text

\* C17 amended: the same for cumulative texts that each extend the one
\* before as a prefix (the final text extends the last delta's).
C17_ChunksSumWhenAppending ==
  \A j \in Finals :
    (SegStart(j) < j /\ OneRun(SegStart(j), j) /\ TextsAppend(SegStart(j), j))
    => ChunksOf(SegStart(j), j) = chatLog[j].text

\* C17 witness: "Hel", "Hello" as deltas and "Hello" as final of run 1 have
\* emitted the chunks "Hel" and "lo".
C17_Witness ==
  /\ Len(chatLog) = 3 /\ OneRun(1, 3)
  /\ chatLog[1].state = "delta" /\ chatLog[1].text = SubSeq(Hello, 1, 3)
  /\ chatLog[2].state = "delta" /\ chatLog[2].text = Hello
  /\ chatLog[3].state = "final" /\ chatLog[3].text = Hello
  /\ chatLog[1].chunk = <<"H", "e", "l">> /\ chatLog[2].chunk = <<"l", "o">>
  /\ chatLog[3].chunk = <<>>

\* The message and stream-end notifications among those of the last step
IsFinalNote(n) == n.ev \in {"message", "streamEnd"}

\* C18: a final event emits exactly one message notification, carrying the
\* event's full text, and after it exactly one stream-end notification,
\* whatever came before it.
C18_FinalEmitsMessageThenEnd ==
  [][\A s \in Sockets, run \in Runs, fullContent \in Texts :
       ChatEvent(s, run, "final", fullContent)
       => SelectSeq(emitted', IsFinalNote)
            = <<ChatNote("message", run, fullContent), ChatNote("streamEnd", run, <<>>)>>]_vars

\* C18 witness: a final event with text "Hello" and no delta before it has
\* just been handled.
C18_Witness ==
  /\ Len(chatLog) = 1 /\ chatLog[1].state = "final" /\ chatLog[1].text = Hello
  /\ emitted = <<[ev |-> "message", id |-> chatLog[1].run, text |-> Hello],
                 [ev |-> "streamEnd", id |-> chatLog[1].run, text |-> <<>>]>>

\* The delta events of the tracked run (or that start a run) whose stretch
\* of events holds events of that run only.
TrackedDeltas ==
  {j \in 1..Len(chatLog) :
      /\ chatLog[j].state = "delta"
      /\ chatLog[j].tracked \in {0, chatLog[j].run}
      /\ OneRun(SegStart(j), j)}

\* The length of the longest text among the events i..j (0 when there is none).
RECURSIVE LongestLen(_, _)
LongestLen(i, j) ==
  IF i > j THEN 0
  ELSE LET rest == LongestLen(i, j - 1)
       IN IF Len(chatLog[j].text) > rest THEN Len(chatLog[j].text) ELSE rest

\* The part of text beyond its first n characters.
Beyond(text, n) == SubSeq(text, n + 1, Len(text))

\* C19 as stated: the chunk of a delta of the tracked run is the suffix of
\* its text beyond the length of the cumulative text seen just before it
\* (beyond length zero for the first delta); no chunk when it is empty.
C19_ChunkIsSuffixBeyondPrevious ==
  \A j \in TrackedDeltas :
    chatLog[j].chunk =
      Beyond(chatLog[j].text, IF SegStart(j) = j THEN 0 ELSE Len(chatLog[j - 1].text))

\* C19 amended: the suffix beyond the length of the longest cumulative text
\* seen so far in the run.
C19_ChunkIsSuffixBeyondLongest ==
  \A j \in TrackedDeltas :
    chatLog[j].chunk = Beyond(chatLog[j].text, LongestLen(SegStart(j), j - 1))

\* C19 witness: the deltas "Hel" then "Hello" of one run have emitted the
\* chunks "Hel" then "lo", the latter in the last step.
C19_Witness ==
  /\ Len(chatLog) = 2 /\ TrackedDeltas = {1, 2}
  /\ chatLog[1].text = <<"H", "e", "l">> /\ chatLog[1].chunk = <<"H", "e", "l">>
  /\ chatLog[2].text = <<"H", "e", "l", "l", "o">> /\ chatLog[2].chunk = <<"l", "o">>
  /\ emitted = <<[ev |-> "streamChunk", id |-> chatLog[1].run, text |-> <<"l", "o">>]>>

\* The stream-start notifications among those of the last step
IsStartNote(n) == n.ev = "streamStart"

C22_ConnectWhileConnectedIsNoOp ==
  [][(connectionState = "connected" /\ Connect)
       => /\ emitted' = <<>> /\ sent' = <<>> /\ callError' = None
          /\ UNCHANGED <<connectionState, reconnectAttempts, ws, reconnectTimer,
                         optReconnect, config, eventListeners, storeVars, errVars, providerToken, deviceToken, sessionKey,
                         hasRetriedTokenMismatch, forceSharedAuthOnce, lastChallenge,
                         pendingRequests, sock, nSockets, tasks, reqVars, chatVars>>]_vars

\* C22 witness: a client without provider is connected on its only socket
\* and the last step emitted nothing; only connect() takes such a step there.
C22_Witness ==
  /\ connectionState = "connected" /\ providerMode = "none"
  /\ nSockets = 1 /\ ws = 1 /\ sock[1].rs = "OPEN" /\ sock[1].promise = "resolved"
  /\ sock[1].out = <<>> /\ ~reconnectTimer
  /\ emitted = <<>> /\ sent = <<>>

\* C23: in a browser whose device identity provider reports itself
\* unsupported, connect() fails with DEVICE_AUTH_UNSUPPORTED before any
\* socket is created; the state becomes 'error' and 'error' is emitted.
C23_UnsupportedFailsBeforeSocket ==
  [][(providerMode = "unsupported" /\ connectionState # "connected" /\ Connect)
       => /\ callError' = "DEVICE_AUTH_UNSUPPORTED"
          /\ UNCHANGED <<ws, sock, nSockets>>
          /\ connectionState' = "error"
          /\ emitted' = <<StateChange("error", reconnectAttempts), Note("error")>>]_vars

\* C23 witness: connect() has just failed on such a client, no socket exists.
C23_Witness ==
  /\ providerMode = "unsupported" /\ callError = "DEVICE_AUTH_UNSUPPORTED"
  /\ connectionState = "error" /\ nSockets = 0 /\ ws = 0
  /\ Emits("error")

\* C24: for every notification emitted, every callback registered for its
\* event is invoked, in order, whether or not callbacks before it threw,
\* and no exception leaves the emit call.
C24_HandlerExceptionsAreContained ==
  \A i \in 1..Len(emitted) :
    /\ ~emit(emitted[i].ev).propagated
    /\ emitted[i].ev \in ListenedEvents
         => emit(emitted[i].ev).invoked = eventListeners[emitted[i].ev]

\* C24 witness: 'connected' has just been emitted to three callbacks of
\* which the first throws; the two after it have been invoked.
C24_Witness ==
  /\ Emits("connected")
  /\ eventListeners["connected"] = <<"h2", "h1", "h3">>
  /\ "h2" \in ThrowingHandlers
  /\ emit("connected").invoked = <<"h2", "h1", "h3">>

\* The classification the claim describes, with `write` the text a message
\* must mention besides "missing scope" to be a missing write scope.
ClassifiedAs(error, write) ==
  LET message == toLowerCase(error.message) IN
  IF includes(message, <<"m", "i", "s", "s", "i", "n", "g", " ", "s", "c", "o", "p", "e">>) /\ includes(message, write)
  THEN "SCOPE_MISSING_WRITE"
  ELSE IF includes(message, <<"p", "a", "i", "r", "i", "n", "g">>) THEN "PAIRING_REQUIRED"
  ELSE IF error.code \in {"AUTH_FAILED", "INVALID_REQUEST", "PAIRING_REQUIRED"} THEN error.code
  ELSE "UNKNOWN"

\* The raw code and the message (when there is one) are those of the payload.
RawPreserved ==
  /\ clientError.rawCode = errorPayload.code
  /\ errorPayload.message # <<>> => clientError.message = errorPayload.message

\* C25 as stated: a message mentioning "missing scope" and "write" is
\* SCOPE_MISSING_WRITE whatever the raw code; otherwise one mentioning
\* "pairing" is PAIRING_REQUIRED; otherwise the raw code decides, UNKNOWN
\* by default; raw code and message are preserved on the error.
C25_ClassificationPrecedence ==
  clientError # NoClientError =>
    /\ clientError.code = ClassifiedAs(errorPayload, <<"w", "r", "i", "t", "e">>)
    /\ RawPreserved

\* C25 amended: the same with "operator.write" as the text that must be
\* mentioned besides "missing scope".
C25_ClassificationByOperatorWrite ==
  clientError # NoClientError =>
    /\ clientError.code = ClassifiedAs(errorPayload, <<"o", "p", "e", "r", "a", "t", "o", "r", ".", "w", "r", "i", "t", "e">>)
    /\ RawPreserved

\* C25 witness: "missing scope: operator.write" with raw code AUTH_FAILED has
\* been classified as SCOPE_MISSING_WRITE, raw code and message kept.
C25_Witness ==
  /\ errorPayload = [code |-> "AUTH_FAILED", message |-> MissingScopeText \o OperatorWriteText]
  /\ clientError.code = "SCOPE_MISSING_WRITE"
  /\ clientError.rawCode = "AUTH_FAILED"
  /\ clientError.message = MissingScopeText \o OperatorWriteText

\* The handling of a frame delivered on socket s begins in this step.
FrameBegins(s) ==
  \/ \E valid \in ChallengePayloads : ServerChallenge(s, valid)
  \/ \E tok \in HelloTokens, sk \in HelloSessionKeys : ServerHelloOk(s, tok, sk)
  \/ \E msg \in FailureMessages : ServerFailure(s, msg)
  \/ \E kind \in FrameKinds : OtherFrame(s, kind)

\* The handler of an earlier frame of socket s is suspended at an await.
HandlerSuspended(s) == \E i \in 1..Len(tasks) : tasks[i].s = s

\* C26: the handling of a frame of a socket begins only when the handling
\* of every earlier frame of that socket has completed, suspended
\* asynchronous steps included.
C26_FramesHandledOneAtATime ==
  [][\A s \in Sockets : HandlerSuspended(s) => ~FrameBegins(s)]_vars

\* C27: a message that is not JSON, a frame of an unrecognized kind and a
\* frame whose handler throws are dropped: no error leaves the message
\* callback, no socket is closed, and connectionState, the pending requests
\* and the streaming state stay as they are.
C27_BadFramesAreDropped ==
  [][\A s \in Sockets, kind \in FrameKinds :
       OtherFrame(s, kind)
       => /\ callError' = None
          /\ UNCHANGED <<sock, ws, connectionState, pendingRequests, requests,
                         currentStreamingMessageId, lastStreamedContent>>]_vars

\* C27 witness: with request 1 pending and run 1 streaming on socket 2, after
\* the error event of socket 1, a step has emitted and sent nothing and
\* failed no call: only the handling of such a frame is such a step there.
C27_Witness ==
  /\ nSockets = MaxSockets /\ connectionState = "error"
  /\ ws = 2 /\ sock[2].rs = "OPEN" /\ sock[2].promise = "resolved"
  /\ pendingRequests = {1} /\ requests[1].status = "pending"
  /\ currentStreamingMessageId = 1 /\ Len(chatLog) = 1 /\ chatLog[1].chunk # <<>>
  /\ emitted = <<>> /\ sent = <<>> /\ callError = None

\* The token the calls opLog[1..j] leave stored for key k: that of the last
\* setDeviceToken with no clearDeviceToken or resetIdentity after it.
RECURSIVE TokenAfter(_, _)
TokenAfter(j, k) ==
  IF j = 0 THEN None
  ELSE IF opLog[j].key = k /\ opLog[j].op = "setDeviceToken" THEN opLog[j].arg
  ELSE IF opLog[j].key = k /\ opLog[j].op \in {"clearDeviceToken", "resetIdentity"} THEN None
  ELSE TokenAfter(j - 1, k)

\* C28: with every provider call awaited before the next, getDeviceToken
\* returns the token of the most recent setDeviceToken of its endpoint that
\* no clearDeviceToken or resetIdentity followed, and none otherwise;
\* clearDeviceToken leaves a record without token and with the identity
\* that was stored before.
C28_TokenLifecycle ==
  \A j \in 1..Len(opLog) :
    /\ opLog[j].op = "getDeviceToken"
         => opLog[j].result = TokenAfter(j - 1, opLog[j].key)
    /\ opLog[j].op = "clearDeviceToken"
         => /\ opLog[j].after.deviceToken = None
            /\ opLog[j].before # NoRecord => opLog[j].after.id = opLog[j].before.id

\* C28 witness: on one endpoint a token was set, then cleared, and
\* getDeviceToken has returned none; the identity is the one stored before
\* the clear.
C28_Witness ==
  /\ Len(opLog) = 3
  /\ opLog[1].op = "setDeviceToken" /\ opLog[1].arg = "t1"
  /\ opLog[1].after = [id |-> 1, deviceToken |-> "t1"]
  /\ opLog[2].op = "clearDeviceToken" /\ opLog[2].key = opLog[1].key
  /\ opLog[2].before = [id |-> 1, deviceToken |-> "t1"]
  /\ opLog[2].after = [id |-> 1, deviceToken |-> None]
  /\ opLog[3].op = "getDeviceToken" /\ opLog[3].key = opLog[1].key
  /\ opLog[3].result = None

\* resetIdentity has been called for key k (completed or still running).
ResetCalled(k) ==
  \/ \E j \in 1..Len(opLog) : opLog[j].key = k /\ opLog[j].op = "resetIdentity"
  \/ \E i \in 1..Len(calls) : calls[i].key = k /\ calls[i].op = "resetIdentity"

\* The completed getOrCreateIdentity calls of key k
IdentityCalls(k) ==
  {j \in 1..Len(opLog) : opLog[j].key = k /\ opLog[j].op = "getOrCreateIdentity"}

\* C29: until resetIdentity is called for an endpoint, every
\* getOrCreateIdentity on it returns the same identity, whichever provider
\* instance is used and also when calls overlap; resetIdentity leaves no
\* record (no identity, no token), and a getOrCreateIdentity called after a
\* resetIdentity has returned gives an identity not returned before it.
C29_IdentityStableUntilReset ==
  /\ \A k \in StoreKeys :
       ~ResetCalled(k) =>
         \A i, j \in IdentityCalls(k) : opLog[i].result = opLog[j].result
  /\ \A j \in 1..Len(opLog) :
       /\ opLog[j].op = "resetIdentity" => opLog[j].after = NoRecord
       /\ opLog[j].op = "resetIdentity"
            => \A m \in (j + 1)..Len(opLog), i \in 1..(j - 1) :
                 (/\ opLog[m].key = opLog[j].key
                  /\ opLog[i].key = opLog[j].key
                  /\ opLog[m].op = "getOrCreateIdentity"
                  /\ opLog[i].op = "getOrCreateIdentity"
                  /\ opLog[m].started >= j)
                   => opLog[m].result # opLog[i].result

\* C30: when an earlier connect attempt r has ended in a terminal
\* token-mismatch failure, the first token-mismatch failure of a later
\* connect attempt s again starts a retry: the connect() call stays pending,
\* the device token is dropped (and cleared in the provider, when there is
\* one) and the connect request is sent once more.
C30_RetryAllowanceIsPerAttempt ==
  [][\A r, s \in Sockets :
       (/\ r < s
        /\ sock[r].promise = "rejected_failure"
        /\ sock[s].promise = "pending"
        /\ sock[s].out # <<>>
        /\ ~Head(sock[s].out).retry /\ Head(sock[s].out).via = s
        /\ ServerFailure(s, "mismatch"))
       => /\ sock'[s].promise = "pending"
          /\ deviceToken' = None
          /\ IF providerSupported
             THEN Len(tasks') = Len(tasks) + 1 /\ tasks'[Len(tasks')].pc = "clear"
             ELSE Len(sent') = 1 /\ sent'[1].retry]_vars

\* C31: whenever connectionState is 'connected' the client holds a socket
\* handle and that socket is open; stated for a client that has created one
\* socket only, so that no second connect attempt is involved.
C31_ConnectedHoldsOpenSocket ==
  (connectionState = "connected" /\ nSockets = 1)
    => (ws # 0 /\ sock[ws].rs = "OPEN")

\* C32: at no time does the client have two sockets that are connecting or
\* open.
C32_AtMostOneLiveSocket == Cardinality(LiveSockets) <= 1

\* C33: the promise returned by every connect() call is eventually settled.
C33_ConnectEventuallySettles ==
  \A s \in Sockets : (sock[s].promise = "pending") ~> (sock[s].promise # "pending")

\* C34: the close event of a socket that is no longer the client's current
\* socket leaves the current socket handle, the pending requests and
\* connectionState as they are.
C34_LateCloseIsIgnored ==
  [][\A s \in Sockets :
       (ws # 0 /\ ws # s /\ SocketClose(s))
       => /\ ws' = ws
          /\ pendingRequests' = pendingRequests
          /\ connectionState' = connectionState]_vars

\* The promise of request id has been settled.
Settled(id) == requests[id].status \notin {"unused", "pending"}

\* C35: a request that has been settled (by its response, its timeout or
\* the close of the socket) has no pending entry and no armed timer left,
\* and from then on no event touches it: its outcome and its timer stay as
\* the first settlement left them.
C35_RequestSettledExactlyOnce ==
  /\ [](\A id \in Ids :
          Settled(id) => (id \notin pendingRequests /\ requests[id].timeout # "armed"))
  /\ [][\A id \in Ids : Settled(id) => requests'[id] = requests[id]]_vars

\* C35 witness: one request was resolved by its response, the other was
\* rejected by its timeout, and the socket both were sent on has closed
\* since.
C35_Witness ==
  /\ requests[1].status = "resolved" /\ requests[1].timeout = "cleared"
  /\ requests[2].status = "rejected_timeout" /\ requests[2].timeout = "fired"
  /\ requests[1].via = 1 /\ requests[2].via = 1
  /\ sock[1].rs = "CLOSED"
  /\ pendingRequests = {}

\* The notifications produced from the first j chat events, in order
RECURSIVE NotesUpTo(_)
NotesUpTo(j) == IF j = 0 THEN <<>> ELSE NotesUpTo(j - 1) \o chatLog[j].em

\* The notifications produced from all chat events so far
Notes == NotesUpTo(Len(chatLog))

\* Notification i is of kind ev for run id
IsNote(n, i, ev, id) == n[i].ev = ev /\ n[i].id = id

\* C36 as stated: every stream-end for a run id is preceded by a stream-start
\* for that id with no other stream-end for it in between, and every
\* stream-chunk carries the id of a stream started and not yet ended.
C36_StreamEndFollowsItsStart ==
  LET n == Notes IN
  \A i \in 1..Len(n) :
    n[i].ev \in {"streamEnd", "streamChunk"}
      => \E j \in 1..(i - 1) :
           /\ IsNote(n, j, "streamStart", n[i].id)
           /\ \A k \in (j + 1)..(i - 1) : ~IsNote(n, k, "streamEnd", n[i].id)

\* C36 amended: every stream-chunk carries the id of the latest stream-start
\* with no stream-end of any run since; a stream-start comes only when no
\* stream is open; every stream-end directly follows the message
\* notification of the same run id.
C36_ChunksBelongToOpenStream ==
  LET n == Notes IN
  \A i \in 1..Len(n) :
    /\ n[i].ev = "streamChunk"
         => \E j \in 1..(i - 1) :
              /\ IsNote(n, j, "streamStart", n[i].id)
              /\ \A k \in (j + 1)..(i - 1) : n[k].ev \notin {"streamEnd", "streamStart"}
    /\ n[i].ev = "streamStart"
         => \A j \in 1..(i - 1) :
              n[j].ev = "streamStart" => \E k \in (j + 1)..(i - 1) : n[k].ev = "streamEnd"
    /\ n[i].ev = "streamEnd"
         => i > 1 /\ IsNote(n, i - 1, "message", n[i].id)

\* C36 witness: a final event of run 2 arrived while run 1 was streaming:
\* the notifications are start and chunk of run 1, then message and
\* stream-end of run 2, and a later delta of run 1 starts a stream again.
C36_Witness ==
  /\ Len(Notes) = 6
  /\ IsNote(Notes, 1, "streamStart", 1) /\ IsNote(Notes, 2, "streamChunk", 1)
  /\ IsNote(Notes, 3, "message", 2) /\ IsNote(Notes, 4, "streamEnd", 2)
  /\ IsNote(Notes, 5, "streamStart", 1) /\ IsNote(Notes, 6, "streamChunk", 1)

\* C37: when the socket the last chat event came on has closed while a run
\* was tracked, the first delta of another run received on the next socket
\* emits stream-start for that run and then its whole cumulative text as
\* the chunk (nothing more when the text is empty).
C37_StreamingStateResetOnLoss ==
  [][\A s \in Sockets, run \in Runs, fullContent \in Texts :
       (/\ chatLog # <<>>
        /\ currentStreamingMessageId # 0
        /\ run # currentStreamingMessageId
        /\ chatLog[Len(chatLog)].sock # s
        /\ sock[chatLog[Len(chatLog)].sock].rs = "CLOSED"
        /\ ChatEvent(s, run, "delta", fullContent))
       => emitted' = <<ChatNote("streamStart", run, <<>>)>>
                     \o (IF fullContent = <<>> THEN <<>>
                         ELSE <<ChatNote("streamChunk", run, fullContent)>>)]_vars

\* C38: while connectionState is 'connected', a connect.challenge or a
\* response that is not a hello-ok makes the client write no frame, start no
\* handshake step and leave the device token, in memory and persisted, as
\* it is; and a hello-ok on a socket whose handshake has succeeded does not
\* emit 'connected' again.
C38_NoHandshakeWhileConnected ==
  [][connectionState = "connected" =>
       /\ \A s \in Sockets :
            (\/ \E valid \in ChallengePayloads : RepeatedChallenge(s, valid)
             \/ \E id \in Ids, kind \in ResponseKinds : ServerResponse(s, id, kind))
            => /\ sent' = <<>>
               /\ UNCHANGED <<tasks, deviceToken, providerToken>>
       /\ \A s \in Sockets, tok \in HelloTokens, sk \in HelloSessionKeys :
            (sock[s].promise = "resolved" /\ ServerHelloOk(s, tok, sk))
            => \A i \in 1..Len(emitted') : emitted'[i].ev # "connected"]_vars

====
